---------------------------- MODULE Spec2Model ----------------------------
(***************************************************************************)
(* Personal Risk Radar: the domain model (src/domain/models.py), the       *)
(* scoring engine (src/domain/scoring.py), the persistence gateway         *)
(* (src/persistence/database.py) and the risk/signal API handlers          *)
(* (src/api/risks.py, src/api/signals.py).                                 *)
(*                                                                         *)
(* Python floats are IEEE-754 binary64.  They are modelled bit-exactly:    *)
(* a float is a record [sign, man, exp] of value (-1)^sign * man * 2^exp   *)
(* with man a 53-bit natural (held in 15-bit limbs, least significant      *)
(* first) and every operation rounds to nearest, ties to even.  Infinities,*)
(* NaN, subnormals and -0.0 are outside the values the program reaches     *)
(* from the inputs drawn here and are not represented.                     *)
(***************************************************************************)
EXTENDS Integers, Sequences, FiniteSets, TLC

(***************************************************************************)
(* Naturals of any size: sequences of limbs, least significant first,      *)
(* no leading zero limb (so equal numbers are equal sequences).            *)
(***************************************************************************)
LimbBits == 15
LimbBase == 2^LimbBits

RECURSIVE BTrim(_)
BTrim(a) ==
    IF a = <<>> THEN <<>>
    ELSE IF a[Len(a)] = 0 THEN BTrim(SubSeq(a, 1, Len(a) - 1)) ELSE a

RECURSIVE BFromNat(_)
BFromNat(n) ==
    IF n = 0 THEN <<>> ELSE <<n % LimbBase>> \o BFromNat(n \div LimbBase)

RECURSIVE BAddC(_, _, _)
BAddC(a, b, c) ==
    IF a = <<>> /\ b = <<>> THEN (IF c = 0 THEN <<>> ELSE <<c>>)
    ELSE LET x == IF a = <<>> THEN 0 ELSE Head(a)
             y == IF b = <<>> THEN 0 ELSE Head(b)
             s == x + y + c
         IN  <<s % LimbBase>>
               \o BAddC(IF a = <<>> THEN <<>> ELSE Tail(a),
                        IF b = <<>> THEN <<>> ELSE Tail(b),
                        s \div LimbBase)

BAdd(a, b) == BAddC(a, b, 0)

RECURSIVE BSubC(_, _, _)
BSubC(a, b, c) ==
    IF a = <<>> THEN <<>>
    ELSE LET y == IF b = <<>> THEN 0 ELSE Head(b)
             d == Head(a) - y - c
         IN  <<d % LimbBase>>
               \o BSubC(Tail(a), IF b = <<>> THEN <<>> ELSE Tail(b),
                        IF d < 0 THEN 1 ELSE 0)

\* a - b for a >= b
BSub(a, b) == BTrim(BSubC(a, b, 0))

RECURSIVE BCmpFrom(_, _, _)
BCmpFrom(a, b, i) ==
    IF i = 0 THEN 0
    ELSE IF a[i] > b[i] THEN 1
    ELSE IF a[i] < b[i] THEN -1
    ELSE BCmpFrom(a, b, i - 1)

\* -1, 0, 1 as a < b, a = b, a > b
BCmp(a, b) ==
    IF Len(a) > Len(b) THEN 1
    ELSE IF Len(a) < Len(b) THEN -1
    ELSE BCmpFrom(a, b, Len(a))

RECURSIVE BMulLimbC(_, _, _)
BMulLimbC(a, d, c) ==
    IF a = <<>> THEN (IF c = 0 THEN <<>> ELSE <<c>>)
    ELSE LET p == Head(a) * d + c
         IN  <<p % LimbBase>> \o BMulLimbC(Tail(a), d, p \div LimbBase)

RECURSIVE BMul(_, _)
BMul(a, b) ==
    IF a = <<>> \/ b = <<>> THEN <<>>
    ELSE LET rest == BMul(a, Tail(b))
         IN  BTrim(BAdd(BMulLimbC(a, Head(b), 0),
                        IF rest = <<>> THEN <<>> ELSE <<0>> \o rest))

\* a * 2^n
BShl(a, n) ==
    LET k == n \div LimbBits
        r == n % LimbBits
        limb(j) == IF j >= 1 /\ j <= Len(a) THEN a[j] ELSE 0
    IN  IF a = <<>> THEN <<>>
        ELSE BTrim([i \in 1..(Len(a) + k + 1) |->
                      ((limb(i - k) * 2^r) % LimbBase)
                      + (limb(i - k - 1) \div 2^(LimbBits - r))])

\* floor(a / 2^n)
BShr(a, n) ==
    LET k == n \div LimbBits
        r == n % LimbBits
        m == Len(a) - k
        limb(i) == IF i <= Len(a) THEN a[i] ELSE 0
    IN  IF m <= 0 THEN <<>>
        ELSE BTrim([i \in 1..m |->
                      (limb(i + k) \div 2^r)
                      + (limb(i + k + 1) % 2^r) * 2^(LimbBits - r)])

\* bit i of a (bit 0 is the least significant)
BBit(a, i) ==
    LET k == (i \div LimbBits) + 1
    IN  IF k > Len(a) THEN 0 ELSE (a[k] \div 2^(i % LimbBits)) % 2

\* the number of bits of a (0 for zero)
BBitLen(a) ==
    IF a = <<>> THEN 0
    ELSE LimbBits * (Len(a) - 1)
           + (CHOOSE k \in 1..LimbBits :
                a[Len(a)] < 2^k /\ a[Len(a)] >= 2^(k - 1))

\* the low n bits of a are all zero
BLowZero(a, n) ==
    \A i \in 1..Len(a) :
       \/ i > (n \div LimbBits) + 1
       \/ i <= n \div LimbBits /\ a[i] = 0
       \/ i = (n \div LimbBits) + 1 /\ a[i] % 2^(n % LimbBits) = 0

\* a / 2^n rounded to the nearest natural, ties to even
BRoundShr(a, n) ==
    IF n = 0 THEN a
    ELSE LET q == BShr(a, n)
             up == /\ BBit(a, n - 1) = 1
                   /\ (~BLowZero(a, n - 1) \/ BBit(q, 0) = 1)
         IN  IF up THEN BAdd(q, <<1>>) ELSE q

RECURSIVE BDivSmallFrom(_, _, _, _)
BDivSmallFrom(a, d, i, r) ==
    IF i = 0 THEN [quot |-> <<>>, rem |-> r]
    ELSE LET cur == r * LimbBase + a[i]
             lower == BDivSmallFrom(a, d, i - 1, cur % d)
         IN  [quot |-> lower.quot \o <<cur \div d>>, rem |-> lower.rem]

\* a divided by a natural 0 < d < LimbBase: quotient and remainder
BDivSmall(a, d) ==
    LET res == BDivSmallFrom(a, d, Len(a), 0)
    IN  [quot |-> BTrim(res.quot), rem |-> res.rem]

(***************************************************************************)
(* binary64                                                                *)
(***************************************************************************)
MantBits == 53

FZero == [sign |-> 0, man |-> <<>>, exp |-> 0]

\* (-1)^s * m * 2^e, m any natural, correctly rounded to binary64
FRound(s, m, e) ==
    IF m = <<>> THEN FZero
    ELSE LET len == BBitLen(m)
         IN  IF len <= MantBits
             THEN [sign |-> s, man |-> BShl(m, MantBits - len),
                   exp |-> e - (MantBits - len)]
             ELSE LET q == BRoundShr(m, len - MantBits)
                  IN  IF BBitLen(q) > MantBits
                      THEN [sign |-> s, man |-> BShr(q, 1),
                            exp |-> e + (len - MantBits) + 1]
                      ELSE [sign |-> s, man |-> q, exp |-> e + (len - MantBits)]

FNeg(x) == IF x = FZero THEN FZero ELSE [x EXCEPT !.sign = 1 - x.sign]

\* Python's float + float
FAdd(x, y) ==
    IF x = FZero THEN y
    ELSE IF y = FZero THEN x
    ELSE LET e == IF x.exp < y.exp THEN x.exp ELSE y.exp
             mx == BShl(x.man, x.exp - e)
             my == BShl(y.man, y.exp - e)
             c == BCmp(mx, my)
         IN  IF x.sign = y.sign THEN FRound(x.sign, BAdd(mx, my), e)
             ELSE IF c = 0 THEN FZero
             ELSE IF c > 0 THEN FRound(x.sign, BSub(mx, my), e)
             ELSE FRound(y.sign, BSub(my, mx), e)

\* Python's float * float
FMul(x, y) ==
    IF x = FZero \/ y = FZero THEN FZero
    ELSE FRound((x.sign + y.sign) % 2, BMul(x.man, y.man), x.exp + y.exp)

\* Python's x < y on floats
FLt(x, y) ==
    IF x = y THEN FALSE
    ELSE IF x = FZero THEN y.sign = 0
    ELSE IF y = FZero THEN x.sign = 1
    ELSE IF x.sign # y.sign THEN x.sign = 1
    ELSE LET lt == \/ x.exp < y.exp
                   \/ (x.exp = y.exp /\ BCmp(x.man, y.man) < 0)
         IN  IF x.sign = 0 THEN lt ELSE ~lt

FLe(x, y) == x = y \/ FLt(x, y)

\* int -> float, as Python converts an int operand of a float operation
FFromInt(n) ==
    IF n >= 0 THEN FRound(0, BFromNat(n), 0) ELSE FRound(1, BFromNat(-n), 0)

\* the float a decimal literal n/d denotes (n any integer, 0 < d < LimbBase):
\* the binary64 nearest to the quotient, as Python and JSON parsing give it
FDec(n, d) ==
    LET a == IF n >= 0 THEN n ELSE -n
        qr == BDivSmall(BShl(BFromNat(a), 75), d)
        sticky == IF qr.rem = 0 THEN <<>> ELSE <<1>>
    IN  FRound(IF n >= 0 THEN 0 ELSE 1, BAdd(BShl(qr.quot, 1), sticky), -76)

\* the literals 0.0 and 1.0
F0 == FZero
F1 == FFromInt(1)

\* Python's min(a, b) and max(a, b): the first argument unless the second
\* is strictly smaller (larger)
PyMin(a, b) == IF FLt(b, a) THEN b ELSE a
PyMax(a, b) == IF FLt(a, b) THEN b ELSE a

(***************************************************************************)
(* Domain model (src/domain/models.py)                                     *)
(***************************************************************************)
RiskCategory == {"CAREER", "FINANCIAL", "HEALTH", "TECHNICAL", "PERSONAL"}
TimeHorizon == {"WEEKS", "MONTHS"}
SignalStrength == {"WEAK", "MEDIUM", "STRONG"}
SignalDirection == {"INCREASE", "DECREASE"}

\* Optional[int] = None for an id the persistence layer has not assigned
None == -1

\* Risk.validate_probability
validate_probability(v) == FLe(F0, v) /\ FLe(v, F1)

\* Risk.validate_impact
validate_impact(v) == 1 <= v /\ v <= 5

\* mutant: the upper bounds are exclusive (lt, not le)
RiskErrors_ExclusiveUpper(f) ==
    {k \in {"category", "name", "base_likelihood", "impact", "confidence",
            "time_horizon"} :
       \/ k = "category" /\ f.category \notin RiskCategory
       \/ k = "name" /\ ~(Len(f.name) >= 1 /\ Len(f.name) < 200)
       \/ k = "base_likelihood"
            /\ ~(FLe(F0, f.base_likelihood) /\ FLt(f.base_likelihood, F1))
       \/ k = "impact" /\ ~(f.impact >= 1 /\ f.impact < 5)
       \/ k = "confidence"
            /\ ~(FLe(F0, f.confidence) /\ FLt(f.confidence, F1))
       \/ k = "time_horizon" /\ f.time_horizon \notin TimeHorizon}

\* The fields of Risk(...) that fail validation: the Field(...) constraints,
\* the enum types and the two validators.
RiskErrors(f) ==
    {k \in {"category", "name", "base_likelihood", "impact", "confidence",
            "time_horizon"} :
       \/ k = "category" /\ f.category \notin RiskCategory
       \/ k = "name" /\ ~(Len(f.name) >= 1 /\ Len(f.name) <= 200)
       \/ k = "base_likelihood"
            /\ ~(FLe(F0, f.base_likelihood) /\ FLe(f.base_likelihood, F1)
                 /\ validate_probability(f.base_likelihood))
       \/ k = "impact"
            /\ ~(f.impact >= 1 /\ f.impact <= 5 /\ validate_impact(f.impact))
       \/ k = "confidence"
            /\ ~(FLe(F0, f.confidence) /\ FLe(f.confidence, F1)
                 /\ validate_probability(f.confidence))
       \/ k = "time_horizon" /\ f.time_horizon \notin TimeHorizon}

\* Risk(**f): the validated value, or the ValidationError pydantic raises
Risk(f) ==
    IF RiskErrors(f) = {} THEN [ok |-> TRUE, value |-> f]
    ELSE [ok |-> FALSE, error |-> "ValidationError", fields |-> RiskErrors(f)]

\* The fields of Signal(...) that fail validation
SignalErrors(f) ==
    {k \in {"name", "direction", "strength"} :
       \/ k = "name" /\ ~(Len(f.name) >= 1 /\ Len(f.name) <= 200)
       \/ k = "direction" /\ f.direction \notin SignalDirection
       \/ k = "strength" /\ f.strength \notin SignalStrength}

\* Signal(**f)
Signal(f) ==
    IF SignalErrors(f) = {} THEN [ok |-> TRUE, value |-> f]
    ELSE [ok |-> FALSE, error |-> "ValidationError", fields |-> SignalErrors(f)]

\* Signal.get_likelihood_modifier: the table of magnitudes
modifiers ==
    [WEAK |-> FDec(5, 100), MEDIUM |-> FDec(10, 100), STRONG |-> FDec(20, 100)]

\* mutant: the sign is never flipped for a decrease signal
get_likelihood_modifier_NoFlip(signal) == modifiers[signal.strength]

\* Signal.get_likelihood_modifier
get_likelihood_modifier(signal) ==
    LET modifier == modifiers[signal.strength]
    IN  IF signal.direction = "DECREASE" THEN FNeg(modifier) ELSE modifier

\* The fields of Assessment(...) that fail validation
AssessmentErrors(f) ==
    {k \in {"effective_likelihood", "impact", "confidence", "risk_score",
            "signal_count"} :
       \/ k = "effective_likelihood"
            /\ ~(FLe(F0, f.effective_likelihood) /\ FLe(f.effective_likelihood, F1)
                 /\ validate_probability(f.effective_likelihood))
       \/ k = "impact" /\ ~(f.impact >= 1 /\ f.impact <= 5)
       \/ k = "confidence"
            /\ ~(FLe(F0, f.confidence) /\ FLe(f.confidence, F1)
                 /\ validate_probability(f.confidence))
       \/ k = "risk_score" /\ ~FLe(F0, f.risk_score)
       \/ k = "signal_count" /\ ~(f.signal_count >= 0)}

\* Assessment(**f); assessed_at is the default_factory's reading of the clock
Assessment(f) ==
    IF AssessmentErrors(f) = {} THEN [ok |-> TRUE, value |-> f]
    ELSE [ok |-> FALSE, error |-> "ValidationError",
          fields |-> AssessmentErrors(f)]

(***************************************************************************)
(* Scoring (src/domain/scoring.py)                                         *)
(***************************************************************************)
\* the loop of calculate_effective_likelihood: effective += modifier
RECURSIVE AccumulateModifiers(_, _)
AccumulateModifiers(effective, signals) ==
    IF signals = <<>> THEN effective
    ELSE AccumulateModifiers(FAdd(effective, get_likelihood_modifier(Head(signals))),
                             Tail(signals))

\* mutant: the running total is clamped after every signal
RECURSIVE AccumulateClamped(_, _)
AccumulateClamped(effective, signals) ==
    IF signals = <<>> THEN effective
    ELSE AccumulateClamped(
             PyMax(F0, PyMin(F1, FAdd(effective,
                                      get_likelihood_modifier(Head(signals))))),
             Tail(signals))

calculate_effective_likelihood_ClampEach(base_likelihood, signals) ==
    PyMax(F0, PyMin(F1, AccumulateClamped(base_likelihood, signals)))

\* mutant: the total is not clamped
calculate_effective_likelihood_NoClamp(base_likelihood, signals) ==
    AccumulateModifiers(base_likelihood, signals)

\* mutant: min and max are exchanged in the clamp
calculate_effective_likelihood_SwappedClamp(base_likelihood, signals) ==
    PyMin(F0, PyMax(F1, AccumulateModifiers(base_likelihood, signals)))

\* calculate_effective_likelihood(base_likelihood, signals)
calculate_effective_likelihood(base_likelihood, signals) ==
    PyMax(F0, PyMin(F1, AccumulateModifiers(base_likelihood, signals)))

\* mutant: the confidence factor is left out of the product
calculate_risk_score_NoConfidence(likelihood, impact, confidence) ==
    FMul(likelihood, FFromInt(impact))

\* calculate_risk_score(likelihood, impact, confidence)
calculate_risk_score(likelihood, impact, confidence) ==
    FMul(FMul(likelihood, FFromInt(impact)), confidence)

\* mutant: the missing id is not checked
assess_risk_NoIdCheck(risk, signals_arg, now) ==
    LET signals == IF signals_arg.given THEN signals_arg.value ELSE <<>>
        effective_likelihood ==
            calculate_effective_likelihood(risk.base_likelihood, signals)
        risk_score ==
            calculate_risk_score(effective_likelihood, risk.impact, risk.confidence)
    IN  Assessment([risk_id |-> risk.id,
                    effective_likelihood |-> effective_likelihood,
                    impact |-> risk.impact,
                    confidence |-> risk.confidence,
                    risk_score |-> risk_score,
                    signal_count |-> Len(signals),
                    assessed_at |-> now])

\* mutant: signal_count is left at the Assessment default
assess_risk_NoSignalCount(risk, signals_arg, now) ==
    LET signals == IF signals_arg.given THEN signals_arg.value ELSE <<>>
        effective_likelihood ==
            calculate_effective_likelihood(risk.base_likelihood, signals)
        risk_score ==
            calculate_risk_score(effective_likelihood, risk.impact, risk.confidence)
    IN  IF risk.id = None
        THEN [ok |-> FALSE, error |-> "ValueError"]
        ELSE Assessment([risk_id |-> risk.id,
                         effective_likelihood |-> effective_likelihood,
                         impact |-> risk.impact,
                         confidence |-> risk.confidence,
                         risk_score |-> risk_score,
                         signal_count |-> 0,
                         assessed_at |-> now])

\* assess_risk(risk, signals); signals_arg is [given |-> FALSE] for an
\* omitted (None) argument and [given |-> TRUE, value |-> list] otherwise;
\* now is the clock as Assessment's default_factory reads it
assess_risk(risk, signals_arg, now) ==
    LET signals == IF signals_arg.given THEN signals_arg.value ELSE <<>>
        effective_likelihood ==
            calculate_effective_likelihood(risk.base_likelihood, signals)
        risk_score ==
            calculate_risk_score(effective_likelihood, risk.impact, risk.confidence)
    IN  IF risk.id = None
        THEN [ok |-> FALSE, error |-> "ValueError"]
        ELSE Assessment([risk_id |-> risk.id,
                         effective_likelihood |-> effective_likelihood,
                         impact |-> risk.impact,
                         confidence |-> risk.confidence,
                         risk_score |-> risk_score,
                         signal_count |-> Len(signals),
                         assessed_at |-> now])

\* the list comprehension of assess_all_risks: the pairs in order, the i-th
\* assessed when the clock reads times[i]; the first exception ends it
RECURSIVE AssessEach(_, _, _)
AssessEach(risks_with_signals, times, done) ==
    IF risks_with_signals = <<>> THEN [ok |-> TRUE, value |-> done]
    ELSE LET pair == Head(risks_with_signals)
             a == assess_risk(pair.risk, [given |-> TRUE, value |-> pair.signals],
                              Head(times))
         IN  IF a.ok
             THEN AssessEach(Tail(risks_with_signals), Tail(times),
                             Append(done, a.value))
             ELSE [ok |-> FALSE, error |-> a.error]

\* mutant: the signals of the earlier pairs leak into the later ones
RECURSIVE AssessEachShared(_, _, _, _)
AssessEachShared(risks_with_signals, times, seen, done) ==
    IF risks_with_signals = <<>> THEN [ok |-> TRUE, value |-> done]
    ELSE LET pair == Head(risks_with_signals)
             a == assess_risk(pair.risk,
                              [given |-> TRUE, value |-> seen \o pair.signals],
                              Head(times))
         IN  IF a.ok
             THEN AssessEachShared(Tail(risks_with_signals), Tail(times),
                                   seen \o pair.signals, Append(done, a.value))
             ELSE [ok |-> FALSE, error |-> a.error]

assess_all_risks_SharedSignals(risks_with_signals, times) ==
    AssessEachShared(risks_with_signals, times, <<>>, <<>>)

\* assess_all_risks(risks_with_signals)
assess_all_risks(risks_with_signals, times) ==
    AssessEach(risks_with_signals, times, <<>>)

(***************************************************************************)
(* State.  req/res: one call of a domain function, its arguments drawn in  *)
(* the initial state and its outcome recorded by the action that makes it. *)
(***************************************************************************)
VARIABLES req, res

(***************************************************************************)
(* The store (the three tables of src/persistence/database.py, each a set  *)
(* of rows), the clock datetime.now reads, the number of API requests      *)
(* handled, and the last request with the HTTP status it was answered with.*)
(***************************************************************************)
VARIABLES risks, signals, assessments, clock, steps, resp

engineVars == <<req, res>>
storeVars == <<risks, signals, assessments>>
apiVars == <<risks, signals, assessments, clock, steps, resp>>
vars == <<req, res, risks, signals, assessments, clock, steps, resp>>

\* bounds of the inputs drawn
MaxSignals == 3
MaxAssessSignals == 2
MaxBatch == 2

SeqsUpTo(S, n) == UNION {[1..k -> S] : k \in 0..n}

\* a decimal literal of hundredths, as the float it denotes
HundredthsTable == [n \in -100..200 |-> FDec(n, 100)]
Hundredths(n) == HundredthsTable[n]

SignalKinds == [direction : SignalDirection, strength : SignalStrength]

\* the Signal values a list of (direction, strength) kinds stands for
SignalsOf(kinds) ==
    [i \in 1..Len(kinds) |->
       [id |-> i, risk_id |-> 1, name |-> "signal",
        direction |-> kinds[i].direction, strength |-> kinds[i].strength]]

\* the Risk field values a request's decimals stand for
RiskFieldsOf(r) ==
    [id |-> r.id, category |-> r.category, name |-> r.name,
     base_likelihood |-> Hundredths(r.base_likelihood), impact |-> r.impact,
     confidence |-> Hundredths(r.confidence), time_horizon |-> r.time_horizon]

RECURSIVE Repeat(_, _)
Repeat(c, n) == IF n = 0 THEN "" ELSE c \o Repeat(c, n - 1)

ValidRiskInputs ==
    [id : {None, 7}, category : {"TECHNICAL"}, name : {"Test Risk"},
     base_likelihood : {0, 50, 90, 100}, impact : {1, 3, 5},
     confidence : {0, 80, 100}, time_horizon : {"MONTHS"}]

AnyRiskInputs ==
    [id : {None}, category : {"FINANCIAL", "OTHER"},
     name : {"", "V", Repeat("n", 200), Repeat("n", 201)},
     base_likelihood : {-10, 0, 50, 100, 150}, impact : {0, 1, 3, 5, 6, 10},
     confidence : {-10, 0, 80, 100, 150}, time_horizon : {"WEEKS", "YEARS"}]

BatchRisks ==
    {[id |-> 7, category |-> "TECHNICAL", name |-> "Test Risk",
      base_likelihood |-> 50, impact |-> 3, confidence |-> 80,
      time_horizon |-> "MONTHS"],
     [id |-> 8, category |-> "HEALTH", name |-> "Other Risk",
      base_likelihood |-> 90, impact |-> 5, confidence |-> 100,
      time_horizon |-> "WEEKS"],
     [id |-> None, category |-> "CAREER", name |-> "Unsaved Risk",
      base_likelihood |-> 10, impact |-> 1, confidence |-> 50,
      time_horizon |-> "WEEKS"]}

BatchPairs ==
    [risk : BatchRisks,
     signals : {<<>>,
                <<[direction |-> "INCREASE", strength |-> "STRONG"]>>,
                <<[direction |-> "INCREASE", strength |-> "STRONG"],
                  [direction |-> "DECREASE", strength |-> "WEAK"]>>}]

\* mutant: the bounds of the bands are exclusive
get_risk_severity_ExclusiveBounds(score) ==
    IF FLt(FDec(30, 10), score) THEN "High"
    ELSE IF FLt(FDec(15, 10), score) THEN "Medium"
    ELSE "Low"

\* get_risk_severity(score) of src/main.py; the labels are returned after a
\* coloured circle and a space, left out here
get_risk_severity(score) ==
    IF FLe(FDec(30, 10), score) THEN "High"
    ELSE IF FLe(FDec(15, 10), score) THEN "Medium"
    ELSE "Low"

\* the scores drawn, in ten-thousandths: each bound, its neighbours, and
\* the ends of the range of scores
ScoreInputs ==
    {0, 1, 7500, 14999, 15000, 15001, 22500, 29999, 30000, 30001, 49999,
     50000}

Requests ==
    {[op |-> "get_likelihood_modifier", signal |-> k] : k \in SignalKinds}
    \cup {[op |-> "get_risk_severity", ten_thousandths |-> n] :
            n \in ScoreInputs}
    \cup {[op |-> "calculate_effective_likelihood", base_likelihood |-> b,
           signals |-> l] :
            b \in {0, 10, 90, 100}, l \in SeqsUpTo(SignalKinds, MaxSignals)}
    \cup {[op |-> "Risk", fields |-> f] : f \in AnyRiskInputs}
    \cup {[op |-> "assess_risk", risk |-> r, signals_given |-> g, signals |-> l,
           now |-> 1] :
            r \in ValidRiskInputs, g \in BOOLEAN,
            l \in SeqsUpTo(SignalKinds, MaxAssessSignals)}
    \cup {[op |-> "assess_all_risks", pairs |-> ps, now |-> 1] :
            ps \in SeqsUpTo(BatchPairs, MaxBatch)}

Pending == [status |-> "pending"]

EngineInit ==
    /\ req \in {r \in Requests :
                  r.op = "assess_risk" => (r.signals_given \/ r.signals = <<>>)}
    /\ res = Pending
    /\ risks = {} /\ signals = {} /\ assessments = {}
    /\ clock = 0 /\ steps = 0 /\ resp = [op |-> "none"]

\* what a call that returned, or raised, leaves in res
Outcome(r) ==
    IF r.ok THEN [status |-> "returned", value |-> r.value]
    ELSE [status |-> "raised", error |-> r.error]

CallModifier ==
    /\ req.op = "get_likelihood_modifier" /\ res = Pending
    /\ res' = [status |-> "returned",
               value |-> get_likelihood_modifier(SignalsOf(<<req.signal>>)[1])]
    /\ UNCHANGED <<req, apiVars>>

CallEffectiveLikelihood ==
    /\ req.op = "calculate_effective_likelihood" /\ res = Pending
    /\ res' = [status |-> "returned",
               value |-> calculate_effective_likelihood(
                             Hundredths(req.base_likelihood),
                             SignalsOf(req.signals))]
    /\ UNCHANGED <<req, apiVars>>

CallRisk ==
    /\ req.op = "Risk" /\ res = Pending
    /\ res' = Outcome(Risk(RiskFieldsOf(req.fields)))
    /\ UNCHANGED <<req, apiVars>>

CallAssessRisk ==
    /\ req.op = "assess_risk" /\ res = Pending
    /\ res' = Outcome(assess_risk(
                  Risk(RiskFieldsOf(req.risk)).value,
                  IF req.signals_given
                  THEN [given |-> TRUE, value |-> SignalsOf(req.signals)]
                  ELSE [given |-> FALSE],
                  req.now))
    /\ UNCHANGED <<req, apiVars>>

CallAssessAll ==
    /\ req.op = "assess_all_risks" /\ res = Pending
    /\ res' = Outcome(assess_all_risks(
                  [i \in 1..Len(req.pairs) |->
                     [risk |-> Risk(RiskFieldsOf(req.pairs[i].risk)).value,
                      signals |-> SignalsOf(req.pairs[i].signals)]],
                  [i \in 1..Len(req.pairs) |-> req.now + i]))
    /\ UNCHANGED <<req, apiVars>>

CallSeverity ==
    /\ req.op = "get_risk_severity" /\ res = Pending
    /\ res' = [status |-> "returned",
               value |-> get_risk_severity(FDec(req.ten_thousandths, 10000))]
    /\ UNCHANGED <<req, apiVars>>

EngineNext ==
    \/ CallSeverity
    \/ CallModifier
    \/ CallEffectiveLikelihood
    \/ CallRisk
    \/ CallAssessRisk
    \/ CallAssessAll

EngineSpec == EngineInit /\ [][EngineNext]_vars

(***************************************************************************)
(* Persistence gateway (src/persistence/database.py).  A table is the set  *)
(* of its rows; a function that writes returns the table after the commit. *)
(***************************************************************************)
\* the integer primary key SQLite gives a new row: one above the greatest
\* rowid in the table
NextId(rows) ==
    IF rows = {} THEN 1
    ELSE (CHOOSE m \in {r.id : r \in rows} : \A r \in rows : r.id <= m) + 1

\* .all() of a query without ORDER BY: the rows in rowid order
RECURSIVE RowsInOrder(_)
RowsInOrder(rows) ==
    IF rows = {} THEN <<>>
    ELSE LET first == CHOOSE r \in rows : \A q \in rows : r.id <= q.id
         IN  <<first>> \o RowsInOrder(rows \ {first})

\* setattr(row, key, value) for every item of an update's data
WithFields(row, data) ==
    [k \in DOMAIN row |-> IF k \in DOMAIN data THEN data[k] ELSE row[k]]

\* create_risk / create_signal / create_assessment: the table with the row
InsertRow(rows, data) == rows \cup {[id |-> NextId(rows)] @@ data}

create_risk(risk_data) == InsertRow(risks, risk_data)

\* get_risk: the rows with the id (none: the gateway returns None)
get_risk(risk_id) == {r \in risks : r.id = risk_id}

\* get_all_risks
get_all_risks == RowsInOrder(risks)

\* update_risk, for a risk that exists
update_risk(risk_id, risk_data) ==
    {IF r.id = risk_id THEN WithFields(r, risk_data) ELSE r : r \in risks}

create_signal(signal_data) == InsertRow(signals, signal_data)

get_signal(signal_id) == {x \in signals : x.id = signal_id}

get_signals_for_risk(risk_id) ==
    RowsInOrder({x \in signals : x.risk_id = risk_id})

\* update_signal, for a signal that exists
update_signal(signal_id, signal_data) ==
    {IF x.id = signal_id THEN WithFields(x, signal_data) ELSE x : x \in signals}

\* mutant: the signals of the same risk are deleted with it
delete_signal_AllOfRisk(signal_id) ==
    {x \in signals :
       \A y \in signals : y.id = signal_id => x.risk_id # y.risk_id}

\* delete_signal, for a signal that exists
delete_signal(signal_id) == {x \in signals : x.id # signal_id}

\* mutant: the new assessment replaces the risk's earlier ones
create_assessment_Upsert(rows, assessment_data) ==
    InsertRow({a \in rows : a.risk_id # assessment_data.risk_id},
              assessment_data)

create_assessment(rows, assessment_data) == InsertRow(rows, assessment_data)

\* get_risk_with_signals
get_risk_with_signals(risk_id) ==
    IF get_risk(risk_id) = {} THEN [found |-> FALSE]
    ELSE [found |-> TRUE,
          risk |-> CHOOSE r \in get_risk(risk_id) : TRUE,
          signals |-> get_signals_for_risk(risk_id)]

\* get_all_risks_with_signals
get_all_risks_with_signals ==
    [i \in 1..Len(get_all_risks) |->
       [risk |-> get_all_risks[i],
        signals |-> get_signals_for_risk(get_all_risks[i].id)]]

\* get_latest_assessments: the subquery gives each risk_id its
\* max(assessed_at); the join keeps every assessment whose risk_id and
\* assessed_at equal a subquery row
LatestJoin ==
    {a \in assessments :
       \A b \in assessments :
          b.risk_id = a.risk_id => b.assessed_at <= a.assessed_at}

\* .order_by(risk_score.desc()): every order of the rows in which the score
\* never rises; the order of rows with equal scores is the engine's choice
RECURSIVE OrderByScoreDesc(_)
OrderByScoreDesc(rows) ==
    IF rows = {} THEN {<<>>}
    ELSE UNION {{<<a>> \o rest : rest \in OrderByScoreDesc(rows \ {a})} :
                  a \in {a \in rows :
                           \A b \in rows : FLe(b.risk_score, a.risk_score)}}

\* the default of get_latest_assessments' limit
DefaultLimit == 100

\* get_latest_assessments(db, limit): the lists .all() may return
get_latest_assessments(limit) ==
    {SubSeq(l, 1, IF Len(l) < limit THEN Len(l) ELSE limit) :
       l \in OrderByScoreDesc(LatestJoin)}

(***************************************************************************)
(* API handlers (src/api/risks.py, src/api/signals.py).  One action is one *)
(* request handled from its first line to its response.                    *)
(***************************************************************************)
MaxSteps == 4

\* the request bodies drawn
RiskCreateBodies ==
    {[category |-> "TECHNICAL", name |-> "Risk",
      base_likelihood |-> Hundredths(b), impact |-> 3,
      confidence |-> Hundredths(80), time_horizon |-> "MONTHS"] :
       b \in {50, 90, 150}}

RiskUpdateBodies ==
    {[impact |-> 5], [base_likelihood |-> Hundredths(150)], <<>>}

SignalCreateBodies ==
    {[name |-> "Signal", direction |-> "INCREASE", strength |-> "STRONG"],
     [name |-> "Signal", direction |-> "DECREASE", strength |-> "WEAK"]}

SignalUpdateBodies == {[direction |-> "DECREASE"], [name |-> ""], <<>>}

\* the ids a request may name: those in the table and one that is not
IdsFor(rows) == {r.id : r \in rows} \cup {NextId(rows)}

\* the handler's answer and the end of the request
Respond(op, id, status) ==
    /\ resp' = [op |-> op, id |-> id, status |-> status]
    /\ steps' = steps + 1

\* the answer of an update handler; fields are the keys of
\* model_dump(exclude_unset=True), the fields the request body set
RespondUpdate(op, id, status, update_data) ==
    /\ resp' = [op |-> op, id |-> id, status |-> status,
                fields |-> DOMAIN update_data]
    /\ steps' = steps + 1

\* the list comprehension Signal.from_db_model(s) for s in db_signals (and
\* the Signal(...) comprehension of assess_risk_endpoint)
SignalsFromDb(db_signals) ==
    IF \A i \in 1..Len(db_signals) : Signal(db_signals[i]).ok
    THEN [ok |-> TRUE,
          value |-> [i \in 1..Len(db_signals) |-> Signal(db_signals[i]).value]]
    ELSE [ok |-> FALSE, error |-> "ValidationError"]

\* POST /api/risks/
create_risk_endpoint(risk) ==
    /\ steps < MaxSteps
    /\ IF Risk([id |-> None] @@ risk).ok
       THEN /\ risks' = create_risk(risk)
            /\ Respond("create_risk", NextId(risks), 201)
       ELSE /\ UNCHANGED risks
            /\ Respond("create_risk", None, 500)
    /\ UNCHANGED <<signals, assessments, clock, engineVars>>

\* mutant: an update naming a risk that is not in the store is applied to
\* the risks that are
update_risk_endpoint_Upsert(risk_id, risk) ==
    /\ steps < MaxSteps
    /\ IF DOMAIN risk = {}
       THEN UNCHANGED risks /\ RespondUpdate("update_risk", risk_id, 400, risk)
       ELSE IF get_risk(risk_id) = {}
       THEN /\ risks' = {WithFields(r, risk) : r \in risks}
            /\ RespondUpdate("update_risk", risk_id, 404, risk)
       ELSE /\ risks' = update_risk(risk_id, risk)
            /\ RespondUpdate("update_risk", risk_id, 200, risk)
    /\ UNCHANGED <<signals, assessments, clock, engineVars>>

\* PUT /api/risks/{risk_id}
update_risk_endpoint(risk_id, risk) ==
    /\ steps < MaxSteps
    /\ IF DOMAIN risk = {}
       THEN UNCHANGED risks /\ RespondUpdate("update_risk", risk_id, 400, risk)
       ELSE IF get_risk(risk_id) = {}
       THEN UNCHANGED risks /\ RespondUpdate("update_risk", risk_id, 404, risk)
       ELSE /\ risks' = update_risk(risk_id, risk)
            /\ RespondUpdate("update_risk", risk_id, 200, risk)
    /\ UNCHANGED <<signals, assessments, clock, engineVars>>

\* mutant: the risk row is deleted and its signals and assessments stay
delete_risk_endpoint_NoCascade(risk_id) ==
    /\ steps < MaxSteps
    /\ IF get_risk(risk_id) = {}
       THEN UNCHANGED storeVars /\ Respond("delete_risk", risk_id, 404)
       ELSE /\ risks' = {r \in risks : r.id # risk_id}
            /\ UNCHANGED <<signals, assessments>>
            /\ Respond("delete_risk", risk_id, 204)
    /\ UNCHANGED <<clock, engineVars>>

\* DELETE /api/risks/{risk_id}: delete_risk, with the cascade of
\* RiskModel.signals and RiskModel.assessments
delete_risk_endpoint(risk_id) ==
    /\ steps < MaxSteps
    /\ IF get_risk(risk_id) = {}
       THEN UNCHANGED storeVars /\ Respond("delete_risk", risk_id, 404)
       ELSE /\ risks' = {r \in risks : r.id # risk_id}
            /\ signals' = {x \in signals : x.risk_id # risk_id}
            /\ assessments' = {a \in assessments : a.risk_id # risk_id}
            /\ Respond("delete_risk", risk_id, 204)
    /\ UNCHANGED <<clock, engineVars>>

\* the response of a handler whose computation ended with result: an
\* exception no handler catches is answered with 500
Answer(result, status) ==
    IF result.ok THEN [status |-> status, value |-> result.value]
    ELSE [status |-> 500]

\* assess_risk(domain_risk, domain_signals), reached when the conversions
\* before it raised nothing
AssessConverted(domain_risk, domain_signals, now) ==
    IF ~domain_risk.ok \/ ~domain_signals.ok
    THEN [ok |-> FALSE, error |-> "ValidationError"]
    ELSE assess_risk(domain_risk.value,
                     [given |-> TRUE, value |-> domain_signals.value], now)

\* what the body of recompute_risk_endpoint comes to when the clock reads
\* now at the construction of the Assessment
RecomputeOutcome(risk_id, now) ==
    IF ~get_risk_with_signals(risk_id).found THEN [status |-> 404]
    ELSE Answer(AssessConverted(
                    Risk(get_risk_with_signals(risk_id).risk),
                    SignalsFromDb(get_risk_with_signals(risk_id).signals),
                    now),
                201)

\* POST /api/risks/{risk_id}/recompute
recompute_risk_endpoint(risk_id) ==
    /\ steps < MaxSteps
    /\ \E now \in {clock, clock + 1} :
          \E out \in {RecomputeOutcome(risk_id, now)} :
             /\ IF out.status = 201
                THEN /\ assessments' = create_assessment(assessments, out.value)
                     /\ clock' = now
                ELSE /\ now = clock
                     /\ UNCHANGED <<assessments, clock>>
             /\ Respond("recompute_risk", risk_id, out.status)
    /\ UNCHANGED <<risks, signals, engineVars>>

\* the loop of recompute_all_risks_endpoint that saves the assessments
RECURSIVE SaveAll(_, _)
SaveAll(rows, todo) ==
    IF todo = <<>> THEN rows
    ELSE SaveAll(create_assessment(rows, Head(todo)), Tail(todo))

\* the conversion loop of recompute_all_risks_endpoint
ConvertAll(db) ==
    [i \in 1..Len(db) |->
       [risk |-> Risk(db[i].risk), signals |-> SignalsFromDb(db[i].signals)]]

\* assess_all_risks(risks_with_signals=domain_data), reached when the
\* conversion loop raised nothing
AssessAllConverted(domain_data, times) ==
    IF \E i \in 1..Len(domain_data) :
          ~domain_data[i].risk.ok \/ ~domain_data[i].signals.ok
    THEN [ok |-> FALSE, error |-> "ValidationError"]
    ELSE assess_all_risks(
             [i \in 1..Len(domain_data) |->
                [risk |-> domain_data[i].risk.value,
                 signals |-> domain_data[i].signals.value]],
             times)

\* what the body of recompute_all_risks_endpoint comes to when the clock
\* reads times[i] at the construction of the i-th Assessment
RecomputeAllOutcome(times) ==
    Answer(AssessAllConverted(ConvertAll(get_all_risks_with_signals), times),
           201)

\* POST /api/risks/recompute
recompute_all_risks_endpoint ==
    /\ steps < MaxSteps
    /\ \E times \in [1..Cardinality(risks) -> {clock, clock + 1}] :
          /\ \A i, j \in DOMAIN times : i <= j => times[i] <= times[j]
          /\ \E out \in {RecomputeAllOutcome(times)} :
                /\ IF out.status = 201
                   THEN /\ assessments' = SaveAll(assessments, out.value)
                        /\ clock' = IF times = <<>> THEN clock
                                    ELSE times[Len(times)]
                   ELSE /\ \A i \in DOMAIN times : times[i] = clock
                        /\ UNCHANGED <<assessments, clock>>
                /\ Respond("recompute_all", None, out.status)
    /\ UNCHANGED <<risks, signals, engineVars>>

\* mutant: a failure of the loop undoes the assessments it had saved
RECURSIVE RecomputeLoop_Rollback(_, _, _, _)
RecomputeLoop_Rollback(acc, db, idx, times) ==
    IF idx > Len(db) THEN acc
    ELSE LET result == AssessConverted(Risk(db[idx].risk),
                                       SignalsFromDb(db[idx].signals),
                                       times[idx])
         IN  IF result.ok
             THEN RecomputeLoop_Rollback(
                      [acc EXCEPT !.rows = create_assessment(@, result.value),
                                  !.saved = idx],
                      db, idx + 1, times)
             ELSE [rows |-> assessments, saved |-> 0, raised |-> TRUE]

\* the loop of recompute_all_assessments (src/main.py): each risk is
\* converted, assessed and saved in its turn, create_assessment commits the
\* row, and the first exception leaves the loop and the function
RECURSIVE RecomputeLoop(_, _, _, _)
RecomputeLoop(acc, db, idx, times) ==
    IF idx > Len(db) THEN acc
    ELSE LET result == AssessConverted(Risk(db[idx].risk),
                                       SignalsFromDb(db[idx].signals),
                                       times[idx])
         IN  IF result.ok
             THEN RecomputeLoop(
                      [acc EXCEPT !.rows = create_assessment(@, result.value),
                                  !.saved = idx],
                      db, idx + 1, times)
             ELSE [acc EXCEPT !.raised = TRUE]

\* recompute_all_assessments() of the dashboard, on the same database;
\* times[i] is the clock as the default of assessed_at reads it when the
\* i-th row is inserted
recompute_all_assessments ==
    /\ steps < MaxSteps
    /\ \E times \in [1..Cardinality(risks) -> {clock, clock + 1}] :
          /\ \A i, j \in DOMAIN times : i <= j => times[i] <= times[j]
          /\ \E out \in {RecomputeLoop([rows |-> assessments, saved |-> 0,
                                        raised |-> FALSE],
                                       get_all_risks_with_signals, 1, times)} :
                /\ \A i \in DOMAIN times :
                      i > out.saved =>
                        times[i] = (IF out.saved = 0 THEN clock
                                    ELSE times[out.saved])
                /\ assessments' = out.rows
                /\ clock' = IF out.saved = 0 THEN clock ELSE times[out.saved]
                /\ resp' = [op |-> "recompute_all_assessments", id |-> None,
                            status |-> None, raised |-> out.raised]
                /\ steps' = steps + 1
    /\ UNCHANGED <<risks, signals, engineVars>>

\* mutant: the signals of the risk are not passed to the engine
AssessOutcome_NoSignals(risk_id, now) ==
    IF get_risk(risk_id) = {} THEN [status |-> 404]
    ELSE Answer(AssessConverted(
                    Risk(CHOOSE db_risk \in get_risk(risk_id) : TRUE),
                    SignalsFromDb(<<>>), now),
                200)

\* what the body of assess_risk_endpoint comes to
AssessOutcome(risk_id, now) ==
    IF get_risk(risk_id) = {} THEN [status |-> 404]
    ELSE Answer(AssessConverted(
                    Risk(CHOOSE db_risk \in get_risk(risk_id) : TRUE),
                    SignalsFromDb(get_signals_for_risk(risk_id)),
                    now),
                200)

\* POST /api/risks/{risk_id}/assess
assess_risk_endpoint(risk_id) ==
    /\ steps < MaxSteps
    /\ \E now \in {clock, clock + 1} :
          \E out \in {AssessOutcome(risk_id, now)} :
             /\ IF out.status = 200
                THEN /\ assessments' = create_assessment(assessments, out.value)
                     /\ clock' = now
                ELSE /\ now = clock
                     /\ UNCHANGED <<assessments, clock>>
             /\ Respond("assess_risk", risk_id, out.status)
    /\ UNCHANGED <<risks, signals, engineVars>>

\* POST /api/signals/
create_signal_endpoint(signal) ==
    /\ steps < MaxSteps
    /\ IF get_risk(signal.risk_id) = {}
       THEN UNCHANGED signals /\ Respond("create_signal", None, 404)
       ELSE /\ signals' = create_signal(signal)
            /\ Respond("create_signal", NextId(signals), 201)
    /\ UNCHANGED <<risks, assessments, clock, engineVars>>

\* PUT /api/signals/{signal_id}
update_signal_endpoint(signal_id, signal) ==
    /\ steps < MaxSteps
    /\ IF DOMAIN signal = {}
       THEN /\ UNCHANGED signals
            /\ RespondUpdate("update_signal", signal_id, 400, signal)
       ELSE IF get_signal(signal_id) = {}
       THEN /\ UNCHANGED signals
            /\ RespondUpdate("update_signal", signal_id, 404, signal)
       ELSE /\ signals' = update_signal(signal_id, signal)
            /\ RespondUpdate("update_signal", signal_id, 200, signal)
    /\ UNCHANGED <<risks, assessments, clock, engineVars>>

\* DELETE /api/signals/{signal_id}
delete_signal_endpoint(signal_id) ==
    /\ steps < MaxSteps
    /\ IF get_signal(signal_id) = {}
       THEN UNCHANGED signals /\ Respond("delete_signal", signal_id, 404)
       ELSE /\ signals' = delete_signal(signal_id)
            /\ Respond("delete_signal", signal_id, 204)
    /\ UNCHANGED <<risks, assessments, clock, engineVars>>

(***************************************************************************)
(* Data input (src/api/data_input.py).  A Python str read from a file is a *)
(* sequence of one-character strings, so that lower() and strip() are     *)
(* computed; a cell of a DataFrame row is a record with its kind: "str"    *)
(* (chars), "int" (value), "float" (hundredths) or "nan" (an empty cell).  *)
(***************************************************************************)
UpperLetters ==
    <<"A", "B", "C", "D", "E", "F", "G", "H", "I", "J", "K", "L", "M",
      "N", "O", "P", "Q", "R", "S", "T", "U", "V", "W", "X", "Y", "Z">>

LowerLetters ==
    <<"a", "b", "c", "d", "e", "f", "g", "h", "i", "j", "k", "l", "m",
      "n", "o", "p", "q", "r", "s", "t", "u", "v", "w", "x", "y", "z">>

Digits == <<"0", "1", "2", "3", "4", "5", "6", "7", "8", "9">>

\* str.lower()
PyLower(chars) ==
    [i \in 1..Len(chars) |->
       IF \E k \in 1..Len(UpperLetters) : UpperLetters[k] = chars[i]
       THEN LowerLetters[CHOOSE k \in 1..Len(UpperLetters) :
                           UpperLetters[k] = chars[i]]
       ELSE chars[i]]

\* str.strip()
RECURSIVE PyStrip(_)
PyStrip(chars) ==
    IF chars = <<>> THEN <<>>
    ELSE IF Head(chars) = " " THEN PyStrip(Tail(chars))
    ELSE IF chars[Len(chars)] = " "
    THEN PyStrip(SubSeq(chars, 1, Len(chars) - 1))
    ELSE chars

\* the Python str the characters spell
RECURSIVE PyString(_)
PyString(chars) ==
    IF chars = <<>> THEN "" ELSE Head(chars) \o PyString(Tail(chars))

\* str(n) for an int n >= 0
RECURSIVE PyStrOfNat(_)
PyStrOfNat(n) ==
    IF n < 10 THEN <<Digits[n + 1]>>
    ELSE PyStrOfNat(n \div 10) \o <<Digits[(n % 10) + 1]>>

\* str(object=cell) for a str, an int or an empty (nan) cell
PyStr(cell) ==
    CASE cell.kind = "str" -> cell.chars
      [] cell.kind = "nan" -> <<"n", "a", "n">>
      [] cell.kind = "int" ->
           IF cell.value < 0 THEN <<"-">> \o PyStrOfNat(-cell.value)
           ELSE PyStrOfNat(cell.value)

\* row.get(f): the cell of column f, None when the row has no such column
NoneCell == [kind |-> "none"]
RowGet(row, f) == IF f \in DOMAIN row THEN row[f] ELSE NoneCell

\* bool(cell): nan is a truthy float
Truthy(cell) ==
    CASE cell.kind = "none" -> FALSE
      [] cell.kind = "nan" -> TRUE
      [] cell.kind = "str" -> cell.chars # <<>>
      [] cell.kind = "int" -> cell.value # 0
      [] cell.kind = "float" -> cell.hundredths # 0

\* next((row.get(f) for f in fields if row.get(f)), None)
RECURSIVE FirstTruthy(_, _)
FirstTruthy(row, fields) ==
    IF fields = <<>> THEN NoneCell
    ELSE IF Truthy(RowGet(row, Head(fields))) THEN RowGet(row, Head(fields))
    ELSE FirstTruthy(row, Tail(fields))

\* next((row.get(f) for f in fields if row.get(f) is not None), None)
RECURSIVE FirstNotNone(_, _)
FirstNotNone(row, fields) ==
    IF fields = <<>> THEN NoneCell
    ELSE IF RowGet(row, Head(fields)) # NoneCell THEN RowGet(row, Head(fields))
    ELSE FirstNotNone(row, Tail(fields))

\* float(x=likelihood): float takes its argument by position only, so the
\* call with the keyword x raises TypeError whatever the cell holds
PyFloat(cell) == [ok |-> FALSE, error |-> "TypeError"]

\* int(x): truncation toward zero; ValueError for nan and for such a str
PyInt(cell) ==
    CASE cell.kind = "int" -> [ok |-> TRUE, value |-> cell.value]
      [] cell.kind = "float" ->
           [ok |-> TRUE,
            value |-> IF cell.hundredths >= 0 THEN cell.hundredths \div 100
                      ELSE -((-cell.hundredths) \div 100)]
      [] cell.kind = "nan" -> [ok |-> FALSE, error |-> "ValueError"]
      [] cell.kind = "str" -> [ok |-> FALSE, error |-> "ValueError"]

\* what a validate_and_clean_* function returns for a rejected row (None)
Rejected == [ok |-> FALSE, raised |-> FALSE]

\* the end of a validate_and_clean_* function in which error was raised:
\* except (ValueError, ValidationError) returns None, any other exception
\* leaves the function
Thrown(error) ==
    IF error \in {"ValueError", "ValidationError"} THEN Rejected
    ELSE [ok |-> FALSE, raised |-> TRUE]

\* the cleaned dict of validate_and_clean_risk_data, validated by
\* Risk(**cleaned); the values of the dict are evaluated in order
CleanedRisk(name, category_str, likelihood, impact, confidence, horizon_str) ==
    IF ~likelihood.ok THEN Thrown(likelihood.error)
    ELSE IF ~impact.ok THEN Thrown(impact.error)
    ELSE IF ~confidence.ok THEN Thrown(confidence.error)
    ELSE IF Risk([id |-> None, name |-> name, category |-> category_str,
                  base_likelihood |-> likelihood.value,
                  impact |-> impact.value, confidence |-> confidence.value,
                  time_horizon |-> horizon_str]).ok
    THEN [ok |-> TRUE,
          value |-> [name |-> name, category |-> category_str,
                     base_likelihood |-> likelihood.value,
                     impact |-> impact.value,
                     confidence |-> confidence.value,
                     time_horizon |-> horizon_str]]
    ELSE Rejected

\* the checks of validate_and_clean_risk_data on the extracted fields
CheckedRisk(name, category, likelihood, impact, confidence, horizon) ==
    IF ~(Truthy(name) /\ Truthy(category) /\ likelihood # NoneCell
         /\ impact # NoneCell /\ confidence # NoneCell /\ Truthy(horizon))
    THEN Rejected
    ELSE IF PyString(PyStrip(PyLower(PyStr(category)))) \notin RiskCategory
    THEN Rejected
    ELSE IF PyString(PyStrip(PyLower(PyStr(horizon)))) \notin TimeHorizon
    THEN Rejected
    ELSE CleanedRisk(PyString(PyStrip(PyStr(name))),
                     PyString(PyStrip(PyLower(PyStr(category)))),
                     PyFloat(likelihood), PyInt(impact), PyFloat(confidence),
                     PyString(PyStrip(PyLower(PyStr(horizon)))))

\* validate_and_clean_risk_data(row)
validate_and_clean_risk_data(row) ==
    CheckedRisk(FirstTruthy(row, <<"name", "risk_name", "title", "risk">>),
                FirstTruthy(row, <<"category", "risk_category", "type">>),
                FirstNotNone(row, <<"base_likelihood", "likelihood",
                                    "probability">>),
                FirstNotNone(row, <<"impact", "severity">>),
                FirstNotNone(row, <<"confidence", "certainty">>),
                FirstTruthy(row, <<"time_horizon", "horizon", "timeframe">>))

\* the cleaned dict of validate_and_clean_signal_data, validated by
\* Signal(**cleaned)
CleanedSignal(name, risk_id, direction_str, strength_str) ==
    IF ~risk_id.ok THEN Thrown(risk_id.error)
    ELSE IF Signal([name |-> name, risk_id |-> risk_id.value,
                    direction |-> direction_str,
                    strength |-> strength_str]).ok
    THEN [ok |-> TRUE,
          value |-> [name |-> name, risk_id |-> risk_id.value,
                     direction |-> direction_str, strength |-> strength_str]]
    ELSE Rejected

\* the checks of validate_and_clean_signal_data on the extracted fields
CheckedSignal(name, risk_id, direction, strength) ==
    IF ~(Truthy(name) /\ risk_id # NoneCell /\ Truthy(direction)
         /\ Truthy(strength))
    THEN Rejected
    ELSE IF PyString(PyStrip(PyLower(PyStr(direction)))) \notin SignalDirection
    THEN Rejected
    ELSE IF PyString(PyStrip(PyLower(PyStr(strength)))) \notin SignalStrength
    THEN Rejected
    ELSE CleanedSignal(PyString(PyStrip(PyStr(name))), PyInt(risk_id),
                       PyString(PyStrip(PyLower(PyStr(direction)))),
                       PyString(PyStrip(PyLower(PyStr(strength)))))

\* validate_and_clean_signal_data(row)
validate_and_clean_signal_data(row) ==
    CheckedSignal(FirstTruthy(row, <<"name", "signal_name", "title", "signal">>),
                  FirstNotNone(row, <<"risk_id", "riskid", "risk">>),
                  FirstTruthy(row, <<"direction", "effect", "impact_direction">>),
                  FirstTruthy(row, <<"strength", "intensity", "magnitude">>))

\* errors[:10] of the upload handlers
MaxErrorsListed == 10

\* str.endswith(suffix)
EndsWith(chars, suffix) ==
    /\ Len(chars) >= Len(suffix)
    /\ SubSeq(chars, Len(chars) - Len(suffix) + 1, Len(chars)) = suffix

\* mutant: every error is listed
DataUploadResponse_AllErrors(acc) ==
    [success |-> acc.created > 0,
     records_processed |-> acc.processed,
     records_created |-> acc.created,
     errors |-> acc.errors]

\* the DataUploadResponse built after the loop
DataUploadResponse(acc) ==
    [success |-> acc.created > 0,
     records_processed |-> acc.processed,
     records_created |-> acc.created,
     errors |-> SubSeq(acc.errors, 1,
                       IF Len(acc.errors) < MaxErrorsListed
                       THEN Len(acc.errors) ELSE MaxErrorsListed)]

\* one turn of the loop over df.iterrows(): idx is the row's 0-based index,
\* cleaned_data what validate_and_clean_* returned for it, acc the counters,
\* the error list and the table so far
UploadRow(acc, idx, cleaned_data) ==
    IF cleaned_data.ok
    THEN [processed |-> acc.processed + 1, created |-> acc.created + 1,
          errors |-> acc.errors,
          rows |-> InsertRow(acc.rows, cleaned_data.value), raised |-> FALSE]
    ELSE IF cleaned_data.raised
    THEN [processed |-> acc.processed + 1, created |-> acc.created,
          errors |-> acc.errors, rows |-> acc.rows, raised |-> TRUE]
    ELSE [processed |-> acc.processed + 1, created |-> acc.created,
          errors |-> Append(acc.errors,
                            [row |-> idx + 1,
                             detail |-> "Invalid or missing data"]),
          rows |-> acc.rows, raised |-> FALSE]

\* mutant: the first rejected row ends the batch
RECURSIVE UploadRisksLoop_StopAtError(_, _, _)
UploadRisksLoop_StopAtError(acc, df, idx) ==
    IF idx >= Len(df) \/ acc.raised \/ acc.errors # <<>> THEN acc
    ELSE UploadRisksLoop_StopAtError(
             UploadRow(acc, idx, validate_and_clean_risk_data(df[idx + 1])),
             df, idx + 1)

RECURSIVE UploadRisksLoop(_, _, _)
UploadRisksLoop(acc, df, idx) ==
    IF idx >= Len(df) \/ acc.raised THEN acc
    ELSE UploadRisksLoop(
             UploadRow(acc, idx, validate_and_clean_risk_data(df[idx + 1])),
             df, idx + 1)

RECURSIVE UploadSignalsLoop(_, _, _)
UploadSignalsLoop(acc, df, idx) ==
    IF idx >= Len(df) \/ acc.raised THEN acc
    ELSE UploadSignalsLoop(
             UploadRow(acc, idx, validate_and_clean_signal_data(df[idx + 1])),
             df, idx + 1)

\* the check of the file name and the parse by pandas: 400 before any row
FileRefused(file, suffixes) ==
    \/ file.filename = <<>>
    \/ \A suffix \in suffixes : ~EndsWith(file.filename, suffix)
    \/ ~file.parsable

StartOfUpload(rows) ==
    [processed |-> 0, created |-> 0, errors |-> <<>>, rows |-> rows,
     raised |-> FALSE]

\* the body shared by upload_risks_csv and upload_risks_excel
UploadRisks(op, file, suffixes) ==
    /\ steps < MaxSteps
    /\ IF FileRefused(file, suffixes)
       THEN /\ resp' = [op |-> op, status |-> 400]
            /\ UNCHANGED risks
       ELSE \E acc \in {UploadRisksLoop(StartOfUpload(risks), file.rows, 0)} :
               /\ resp' = IF acc.raised THEN [op |-> op, status |-> 500]
                          ELSE [op |-> op, status |-> 200,
                                body |-> DataUploadResponse(acc),
                                all_errors |-> acc.errors]
               /\ risks' = acc.rows
    /\ steps' = steps + 1
    /\ UNCHANGED <<signals, assessments, clock, engineVars>>

\* the body shared by upload_signals_csv and upload_signals_excel
UploadSignals(op, file, suffixes) ==
    /\ steps < MaxSteps
    /\ IF FileRefused(file, suffixes)
       THEN /\ resp' = [op |-> op, status |-> 400]
            /\ UNCHANGED signals
       ELSE \E acc \in {UploadSignalsLoop(StartOfUpload(signals), file.rows, 0)} :
               /\ resp' = IF acc.raised THEN [op |-> op, status |-> 500]
                          ELSE [op |-> op, status |-> 200,
                                body |-> DataUploadResponse(acc),
                                all_errors |-> acc.errors]
               /\ signals' = acc.rows
    /\ steps' = steps + 1
    /\ UNCHANGED <<risks, assessments, clock, engineVars>>

CsvSuffixes == {<<".", "c", "s", "v">>}
ExcelSuffixes == {<<".", "x", "l", "s", "x">>, <<".", "x", "l", "s">>}

\* POST /api/data-input/upload/risks/csv
upload_risks_csv(file) == UploadRisks("upload_risks_csv", file, CsvSuffixes)

\* POST /api/data-input/upload/risks/excel
upload_risks_excel(file) == UploadRisks("upload_risks_excel", file, ExcelSuffixes)

\* POST /api/data-input/upload/signals/csv
upload_signals_csv(file) == UploadSignals("upload_signals_csv", file, CsvSuffixes)

\* POST /api/data-input/upload/signals/excel
upload_signals_excel(file) ==
    UploadSignals("upload_signals_excel", file, ExcelSuffixes)

\* POST /api/data-input/form/risk
create_risk_from_form(risk_data) ==
    /\ steps < MaxSteps
    /\ IF Risk([id |-> None] @@ risk_data).ok
       THEN /\ risks' = create_risk(risk_data)
            /\ Respond("create_risk_from_form", NextId(risks), 200)
       ELSE /\ UNCHANGED risks
            /\ Respond("create_risk_from_form", None, 400)
    /\ UNCHANGED <<signals, assessments, clock, engineVars>>

\* POST /api/data-input/form/signal
create_signal_from_form(signal_data) ==
    /\ steps < MaxSteps
    /\ IF Signal(signal_data).ok
       THEN /\ signals' = create_signal(signal_data)
            /\ Respond("create_signal_from_form", NextId(signals), 200)
       ELSE /\ UNCHANGED signals
            /\ Respond("create_signal_from_form", None, 400)
    /\ UNCHANGED <<risks, assessments, clock, engineVars>>

\* GET /api/risks/{risk_id}
get_risk_endpoint(risk_id) ==
    /\ steps < MaxSteps
    /\ Respond("get_risk", risk_id,
               IF get_risk(risk_id) = {} THEN 404 ELSE 200)
    /\ UNCHANGED <<storeVars, clock, engineVars>>

\* GET /api/risks/{risk_id}/with-signals
get_risk_with_signals_endpoint(risk_id) ==
    /\ steps < MaxSteps
    /\ Respond("get_risk_with_signals", risk_id,
               IF get_risk(risk_id) = {} THEN 404
               ELSE IF /\ Risk(CHOOSE db_risk \in get_risk(risk_id) : TRUE).ok
                       /\ SignalsFromDb(get_signals_for_risk(risk_id)).ok
               THEN 200 ELSE 500)
    /\ UNCHANGED <<storeVars, clock, engineVars>>

\* GET /api/signals/{signal_id}
get_signal_endpoint(signal_id) ==
    /\ steps < MaxSteps
    /\ Respond("get_signal", signal_id,
               IF get_signal(signal_id) = {} THEN 404 ELSE 200)
    /\ UNCHANGED <<storeVars, clock, engineVars>>

\* GET /api/signals/risk/{risk_id}
get_signals_for_risk_endpoint(risk_id) ==
    /\ steps < MaxSteps
    /\ Respond("get_signals_for_risk", risk_id,
               IF get_risk(risk_id) = {} THEN 404 ELSE 200)
    /\ UNCHANGED <<storeVars, clock, engineVars>>

\* the cells and rows drawn
Str(chars) == [kind |-> "str", chars |-> chars]
IntCell(n) == [kind |-> "int", value |-> n]
FloatCell(h) == [kind |-> "float", hundredths |-> h]
NanCell == [kind |-> "nan"]

Without(row, column) == [c \in DOMAIN row \ {column} |-> row[c]]

GoodRiskRow ==
    [name |-> Str(<<"R", "i", "s", "k">>),
     category |-> Str(<<"H", "E", "A", "L", "T", "H">>),
     base_likelihood |-> FloatCell(50), impact |-> IntCell(3),
     confidence |-> FloatCell(80),
     time_horizon |-> Str(<<"W", "E", "E", "K", "S">>)]

GoodSignalRow ==
    [name |-> Str(<<"S", "i", "g">>), risk_id |-> IntCell(1),
     direction |-> Str(<<"I", "N", "C", "R", "E", "A", "S", "E">>),
     strength |-> Str(<<"W", "E", "A", "K">>)]

RiskRows ==
    {GoodRiskRow, Without(GoodRiskRow, "impact"),
     [GoodRiskRow EXCEPT !.impact = NanCell],
     [GoodRiskRow EXCEPT !.impact = IntCell(6)],
     [GoodRiskRow EXCEPT !.base_likelihood = FloatCell(150)],
     [GoodRiskRow EXCEPT !.confidence = Str(<<"h", "i", "g", "h">>)],
     [GoodRiskRow EXCEPT !.name = NanCell],
     Without(GoodRiskRow, "name"),
     [GoodRiskRow EXCEPT !.category = Str(<<"h", "e", "a", "l", "t", "h">>)],
     [GoodRiskRow EXCEPT !.category = Str(<<" ", "H", "e", "a", "l", "t", "h", " ">>)],
     [GoodRiskRow EXCEPT !.category = Str(<<"O", "T", "H", "E", "R">>)],
     [GoodRiskRow EXCEPT !.time_horizon = Str(<<"w", "e", "e", "k", "s">>)],
     [GoodRiskRow EXCEPT !.time_horizon = Str(<<"Y", "E", "A", "R", "S">>)],
     [title |-> GoodRiskRow.name, type |-> GoodRiskRow.category,
      probability |-> FloatCell(10), severity |-> IntCell(5),
      certainty |-> IntCell(1), horizon |-> GoodRiskRow.time_horizon]}

SignalRows ==
    {GoodSignalRow, Without(GoodSignalRow, "risk_id"),
     [GoodSignalRow EXCEPT !.risk_id = IntCell(9)],
     [GoodSignalRow EXCEPT !.risk_id = NanCell],
     [GoodSignalRow EXCEPT !.name = NanCell],
     Without(GoodSignalRow, "strength"),
     [GoodSignalRow EXCEPT !.direction = Str(<<"i", "n", "c", "r", "e", "a", "s", "e">>)],
     [GoodSignalRow EXCEPT !.direction = Str(<<"U", "P">>)],
     [GoodSignalRow EXCEPT !.strength = Str(<<" ", "W", "e", "a", "k">>)],
     [GoodSignalRow EXCEPT !.strength = Str(<<"w", "e", "a", "k">>)],
     [signal |-> GoodSignalRow.name, risk |-> IntCell(1),
      effect |-> GoodSignalRow.direction, magnitude |-> GoodSignalRow.strength]}

CsvName == <<"d", ".", "c", "s", "v">>
XlsxName == <<"d", ".", "x", "l", "s", "x">>

CsvFile(rows) == [filename |-> CsvName, parsable |-> TRUE, rows |-> rows]

\* the requests of the data-input form and upload endpoints drawn
FormRiskBodies ==
    {b \in RiskCreateBodies : b.base_likelihood # Hundredths(90)}

FormSignalBodies ==
    {[name |-> "Signal", direction |-> "INCREASE", strength |-> "STRONG"],
     [name |-> "Signal", direction |-> "increase", strength |-> "STRONG"]}

UploadedRiskFiles ==
    {CsvFile(<<GoodRiskRow, Without(GoodRiskRow, "impact")>>)}

UploadedSignalFiles ==
    {CsvFile(<<GoodSignalRow, [GoodSignalRow EXCEPT !.risk_id = IntCell(9)]>>)}

CreateRisk == \E risk \in RiskCreateBodies : create_risk_endpoint(risk)

UpdateRisk ==
    \E risk_id \in IdsFor(risks), risk \in RiskUpdateBodies :
       update_risk_endpoint(risk_id, risk)

DeleteRisk == \E risk_id \in IdsFor(risks) : delete_risk_endpoint(risk_id)

RecomputeRisk == \E risk_id \in IdsFor(risks) : recompute_risk_endpoint(risk_id)

RecomputeAll == recompute_all_risks_endpoint

RecomputeAllAssessments == recompute_all_assessments

AssessRisk == \E risk_id \in IdsFor(risks) : assess_risk_endpoint(risk_id)

CreateSignal ==
    \E risk_id \in IdsFor(risks), body \in SignalCreateBodies :
       create_signal_endpoint([risk_id |-> risk_id] @@ body)

UpdateSignal ==
    \E signal_id \in IdsFor(signals), signal \in SignalUpdateBodies :
       update_signal_endpoint(signal_id, signal)

DeleteSignal ==
    \E signal_id \in IdsFor(signals) : delete_signal_endpoint(signal_id)

GetRisk == \E risk_id \in IdsFor(risks) : get_risk_endpoint(risk_id)

GetRiskWithSignals ==
    \E risk_id \in IdsFor(risks) : get_risk_with_signals_endpoint(risk_id)

GetSignal == \E signal_id \in IdsFor(signals) : get_signal_endpoint(signal_id)

GetSignalsForRisk ==
    \E risk_id \in IdsFor(risks) : get_signals_for_risk_endpoint(risk_id)

CreateRiskFromForm ==
    \E risk_data \in FormRiskBodies : create_risk_from_form(risk_data)

CreateSignalFromForm ==
    \E risk_id \in IdsFor(risks), body \in FormSignalBodies :
       create_signal_from_form([risk_id |-> risk_id] @@ body)

UploadRisksCsv == \E file \in UploadedRiskFiles : upload_risks_csv(file)

UploadSignalsCsv == \E file \in UploadedSignalFiles : upload_signals_csv(file)

Init ==
    /\ risks = {} /\ signals = {} /\ assessments = {}
    /\ clock = 0 /\ steps = 0 /\ resp = [op |-> "none"]
    /\ req = [op |-> "none"] /\ res = Pending

Next ==
    \/ CreateRisk
    \/ UpdateRisk
    \/ DeleteRisk
    \/ RecomputeRisk
    \/ RecomputeAll
    \/ RecomputeAllAssessments
    \/ AssessRisk
    \/ CreateSignal
    \/ UpdateSignal
    \/ DeleteSignal
    \/ GetRisk
    \/ GetRiskWithSignals
    \/ GetSignal
    \/ GetSignalsForRisk
    \/ CreateRiskFromForm
    \/ CreateSignalFromForm
    \/ UploadRisksCsv
    \/ UploadSignalsCsv

Spec == Init /\ [][Next]_vars

(***************************************************************************)
(* The data-input functions and upload handlers on their own: one request  *)
(* is drawn, with a file of up to MaxRows rows, and handled on an empty    *)
(* store.                                                                  *)
(***************************************************************************)
MaxRows == 11

\* the rows of the long files: a row as the documentation writes it and the
\* same row with an empty impact cell
LongFileRows == {GoodRiskRow, [GoodRiskRow EXCEPT !.impact = NanCell]}

\* the files drawn: long ones, and short ones by name and parsability
ImportRiskFiles ==
    {CsvFile(rows) : rows \in SeqsUpTo(LongFileRows, MaxRows)}
    \cup [filename : {CsvName, XlsxName, <<>>}, parsable : BOOLEAN,
          rows : {<<GoodRiskRow, Without(GoodRiskRow, "impact")>>}]

ImportSignalFiles ==
    [filename : {CsvName, XlsxName, <<>>}, parsable : BOOLEAN,
     rows : SeqsUpTo({GoodSignalRow,
                      [GoodSignalRow EXCEPT !.risk_id = NanCell]}, 3)]

ImportRequests ==
    {[op |-> "validate_and_clean_risk_data", row |-> row] : row \in RiskRows}
    \cup {[op |-> "validate_and_clean_signal_data", row |-> row] :
            row \in SignalRows}
    \cup {[op |-> op, file |-> file] :
            op \in {"upload_risks_csv", "upload_risks_excel"},
            file \in ImportRiskFiles}
    \cup {[op |-> op, file |-> file] :
            op \in {"upload_signals_csv", "upload_signals_excel"},
            file \in ImportSignalFiles}

ImportInit ==
    /\ req \in ImportRequests
    /\ res = Pending
    /\ risks = {} /\ signals = {} /\ assessments = {}
    /\ clock = 0 /\ steps = 0 /\ resp = [op |-> "none"]

\* what a call of validate_and_clean_* leaves in res: the cleaned dict,
\* None, or the exception that left the function
Cleaned(result) ==
    IF result.ok THEN [status |-> "returned", ok |-> TRUE,
                       value |-> result.value]
    ELSE IF result.raised THEN [status |-> "raised", ok |-> FALSE]
    ELSE [status |-> "returned", ok |-> FALSE]

ImportValidateRisk ==
    /\ req.op = "validate_and_clean_risk_data" /\ res = Pending
    /\ res' = Cleaned(validate_and_clean_risk_data(req.row))
    /\ UNCHANGED <<req, apiVars>>

ImportValidateSignal ==
    /\ req.op = "validate_and_clean_signal_data" /\ res = Pending
    /\ res' = Cleaned(validate_and_clean_signal_data(req.row))
    /\ UNCHANGED <<req, apiVars>>

ImportUploadRisksCsv ==
    /\ req.op = "upload_risks_csv" /\ steps = 0
    /\ upload_risks_csv(req.file)

ImportUploadRisksExcel ==
    /\ req.op = "upload_risks_excel" /\ steps = 0
    /\ upload_risks_excel(req.file)

ImportUploadSignalsCsv ==
    /\ req.op = "upload_signals_csv" /\ steps = 0
    /\ upload_signals_csv(req.file)

ImportUploadSignalsExcel ==
    /\ req.op = "upload_signals_excel" /\ steps = 0
    /\ upload_signals_excel(req.file)

ImportNext ==
    \/ ImportValidateRisk
    \/ ImportValidateSignal
    \/ ImportUploadRisksCsv
    \/ ImportUploadRisksExcel
    \/ ImportUploadSignalsCsv
    \/ ImportUploadSignalsExcel

ImportSpec == ImportInit /\ [][ImportNext]_vars

(***************************************************************************)
(* Properties of the domain functions (EngineSpec)                         *)
(***************************************************************************)
Returned == res # Pending /\ res.status = "returned"
Raised == res # Pending /\ res.status = "raised"

\* |x - y| <= 2^-30, which is below 1e-9
Tolerance == FRound(0, <<1>>, -30)
FClose(x, y) ==
    LET d == FAdd(x, FNeg(y))
    IN  FLe(IF d = FZero THEN d ELSE [d EXCEPT !.sign = 0], Tolerance)

\* the decimal value of a signal's modifier, in hundredths
DecimalModifier(k) ==
    (IF k.direction = "INCREASE" THEN 1 ELSE -1)
    * (CASE k.strength = "WEAK" -> 5
         [] k.strength = "MEDIUM" -> 10
         [] k.strength = "STRONG" -> 20)

RECURSIVE DecimalSum(_)
DecimalSum(kinds) ==
    IF kinds = <<>> THEN 0
    ELSE DecimalModifier(Head(kinds)) + DecimalSum(Tail(kinds))

\* base + m1 + ... + mn in float arithmetic, taken in list order
RECURSIVE FullSum(_, _)
FullSum(base, sigs) ==
    IF sigs = <<>> THEN base
    ELSE FAdd(FullSum(base, SubSeq(sigs, 1, Len(sigs) - 1)),
              get_likelihood_modifier(sigs[Len(sigs)]))

(***************************************************************************)
(* Properties of the stored assessments (Spec)                             *)
(***************************************************************************)
\* C1: in every state the API operations reach, every stored assessment's
\* risk_score is the float product effective_likelihood * impact *
\* confidence of that same row, in the order Python takes it.
C1_ScoreFormula ==
    \A a \in assessments :
       a.risk_score
         = FMul(FMul(a.effective_likelihood, FFromInt(a.impact)), a.confidence)

\* a stored assessment that counted a signal, with a likelihood that is not
\* its risk's base likelihood, whose risk has since been given another impact
C1_Witness ==
    \E a \in assessments : \E r \in risks :
       /\ r.id = a.risk_id
       /\ a.signal_count > 0
       /\ a.effective_likelihood # r.base_likelihood
       /\ a.impact # r.impact
       /\ FLt(F0, a.risk_score)

\* C11 as stated: every stored risk has 0 <= base_likelihood <= 1,
\* 1 <= impact <= 5, 0 <= confidence <= 1 and 1 <= len(name) <= 200.
C11_StoredRisksValid ==
    \A r \in risks :
       /\ FLe(F0, r.base_likelihood) /\ FLe(r.base_likelihood, F1)
       /\ 1 <= r.impact /\ r.impact <= 5
       /\ FLe(F0, r.confidence) /\ FLe(r.confidence, F1)
       /\ 1 <= Len(r.name) /\ Len(r.name) <= 200

\* C12: a step that leaves a risk in the store leaves every assessment of
\* that risk in the store, with every field as it was.
C12_AppendOnly ==
    [][\A a \in assessments :
          (\E r \in risks' : r.id = a.risk_id) => a \in assessments']_vars

\* C12 witness: an assessment whose risk has since got or lost a signal
C12_Witness ==
    /\ resp.op \in {"create_signal", "delete_signal"}
    /\ resp.status \in {201, 204}
    /\ \E a \in assessments : \E r \in risks :
          /\ r.id = a.risk_id
          /\ a.signal_count # Len(get_signals_for_risk(r.id))

\* C13: a delete of a risk that succeeds leaves no signal and no assessment
\* with that risk_id, removes that risk alone, and leaves the signals and
\* assessments of every other risk as they were.
C13_CascadeDelete ==
    [][(resp'.op = "delete_risk" /\ steps' = steps + 1
        /\ resp'.status = 204) =>
          /\ risks' = {r \in risks : r.id # resp'.id}
          /\ signals' = {x \in signals : x.risk_id # resp'.id}
          /\ assessments' = {a \in assessments : a.risk_id # resp'.id}
          /\ \A x \in signals' : x.risk_id # resp'.id
          /\ \A a \in assessments' : a.risk_id # resp'.id]_vars

\* C13 witness: a risk was deleted and the signal of another risk is there
C13_Witness ==
    /\ resp.op = "delete_risk" /\ resp.status = 204
    /\ \E x \in signals : x.risk_id # resp.id
    /\ \A x \in signals : x.risk_id # resp.id

\* C14 as stated: on every creation path a signal is created only for a
\* risk that is in the store when the request is handled.
C14_SignalCreatedForExistingRisk ==
    [][\A x \in signals' \ signals :
          \E r \in risks : r.id = x.risk_id]_vars

\* C15 as stated: get_latest_assessments returns exactly one assessment for
\* each risk that has one, the one with the greatest assessed_at and, among
\* those sharing it, the highest id.
C15_OneLatestPerRisk ==
    \A result \in get_latest_assessments(DefaultLimit) :
       \A risk_id \in {a.risk_id : a \in assessments} :
          LET mine == {i \in DOMAIN result : result[i].risk_id = risk_id}
          IN  /\ Cardinality(mine) = 1
              /\ \A i \in mine :
                    \A b \in assessments :
                       b.risk_id = risk_id =>
                         \/ b.assessed_at < result[i].assessed_at
                         \/ /\ b.assessed_at = result[i].assessed_at
                            /\ b.id <= result[i].id

\* the requests of src/api/risks.py and src/api/signals.py that name a risk
\* by id, and those that name a signal by id
RiskIdOps ==
    {"get_risk", "get_risk_with_signals", "get_signals_for_risk",
     "delete_risk", "recompute_risk", "assess_risk"}
SignalIdOps == {"get_signal", "delete_signal"}

\* the request answered in this step named an id that is not in its table
NamesMissingRisk(ops) ==
    /\ steps' = steps + 1 /\ resp'.op \in ops
    /\ get_risk(resp'.id) = {}
NamesMissingSignal(ops) ==
    /\ steps' = steps + 1 /\ resp'.op \in ops
    /\ get_signal(resp'.id) = {}

\* a POST /api/signals/ is answered 201 only when its risk is in the store,
\* and 404 otherwise
CreateSignalAnswer ==
    (steps' = steps + 1 /\ resp'.op = "create_signal") =>
       IF resp'.status = 201
       THEN \E x \in signals' \ signals : get_risk(x.risk_id) # {}
       ELSE resp'.status = 404 /\ UNCHANGED storeVars

C16_WitnessUpdate ==
    /\ resp.op = "update_risk" /\ resp.status = 404
    /\ resp.fields # {} /\ get_risk(resp.id) = {} /\ risks # {}

\* the assessments a step adds to the store
NewAssessments == assessments' \ assessments

\* a is the engine's result on the stored fields of r and on the signals
\* stored for r, as the step found them
EngineResultFor(r, a) ==
    /\ a.risk_id = r.id
    /\ a.effective_likelihood =
         calculate_effective_likelihood(r.base_likelihood,
                                        get_signals_for_risk(r.id))
    /\ a.risk_score =
         calculate_risk_score(a.effective_likelihood, r.impact, r.confidence)
    /\ a.impact = r.impact /\ a.confidence = r.confidence
    /\ a.signal_count = Len(get_signals_for_risk(r.id))

\* C21 as stated: a recompute-one of a risk that is in the store appends one
\* assessment for it, the engine's result on its stored fields and signals
\* with signal_count the number of its stored signals, and changes no risk,
\* no signal and no other assessment.
C21_RecomputeOneAppends ==
    [][(/\ steps' = steps + 1 /\ resp'.op = "recompute_risk"
        /\ get_risk(resp'.id) # {}) =>
          /\ risks' = risks /\ signals' = signals
          /\ assessments \subseteq assessments'
          /\ Cardinality(NewAssessments) = 1
          /\ \A a \in NewAssessments :
                \A r \in get_risk(resp'.id) : EngineResultFor(r, a)]_vars

\* C22 as stated: a recompute-all appends one assessment for every risk in
\* the store, each the engine's result on that risk's own stored fields and
\* signals, saved in the order in which the risks were read.
C22_RecomputeAllAppends ==
    [][(steps' = steps + 1 /\ resp'.op = "recompute_all") =>
          /\ risks' = risks /\ signals' = signals
          /\ assessments \subseteq assessments'
          /\ \A r \in risks :
                /\ Cardinality({a \in NewAssessments : a.risk_id = r.id}) = 1
                /\ \A a \in NewAssessments :
                      a.risk_id = r.id => EngineResultFor(r, a)
          /\ \A a \in NewAssessments : get_risk(a.risk_id) # {}
          /\ \A a, b \in NewAssessments :
                a.risk_id < b.risk_id => a.id < b.id]_vars

\* C27 as stated: after any sequence of requests, a recompute-one of a risk
\* that is in the store is answered 201 and appends an assessment, and a
\* recompute-all is answered 201 with an assessment for every stored risk.
C27_RecomputeSucceeds ==
    [][/\ (/\ steps' = steps + 1 /\ resp'.op = "recompute_risk"
           /\ get_risk(resp'.id) # {}) =>
             (resp'.status = 201 /\ NewAssessments # {})
       /\ (steps' = steps + 1 /\ resp'.op = "recompute_all") =>
             /\ resp'.status = 201
             /\ \A r \in risks :
                   \E a \in NewAssessments : a.risk_id = r.id]_vars

\* the stored risk and its stored signals convert to domain values
Converts(db_risk) ==
    /\ Risk(db_risk).ok
    /\ SignalsFromDb(get_signals_for_risk(db_risk.id)).ok

\* the place, in the order the risks are read, of the first risk that does
\* not convert; one past the end when every risk converts
FirstNotConverting ==
    IF \A i \in 1..Len(get_all_risks) : Converts(get_all_risks[i])
    THEN Len(get_all_risks) + 1
    ELSE CHOOSE i \in 1..Len(get_all_risks) :
            /\ ~Converts(get_all_risks[i])
            /\ \A j \in 1..(i - 1) : Converts(get_all_risks[j])

\* the number of risks, in the order read, whose assessment the recompute-all
\* of this step saved: all of them when it completed; when it failed, those
\* the dashboard's loop had saved before the failing risk, and none for the
\* endpoint, which fails while converting, before it saves anything
SavedBefore ==
    IF FirstNotConverting > Len(get_all_risks) THEN Len(get_all_risks)
    ELSE IF resp'.op = "recompute_all" THEN 0
    ELSE FirstNotConverting - 1

\* C23: a recompute-all has no transaction over the batch: it either
\* completes with one assessment saved for every risk, or fails at some
\* risk, and then the assessments saved for the risks before it stay saved,
\* the risks from it on get none, and nothing stored before is undone.
C23_NoBatchTransaction ==
    [][(/\ steps' = steps + 1
        /\ resp'.op \in {"recompute_all", "recompute_all_assessments"}) =>
          /\ assessments \subseteq assessments'
          /\ (IF resp'.op = "recompute_all" THEN resp'.status # 201
              ELSE resp'.raised) <=> (FirstNotConverting <= Len(get_all_risks))
          /\ \A i \in 1..Len(get_all_risks) :
                Cardinality({a \in NewAssessments :
                               a.risk_id = get_all_risks[i].id})
                  = (IF i <= SavedBefore THEN 1 ELSE 0)
          /\ \A a \in NewAssessments : get_risk(a.risk_id) # {}]_vars

\* C23 witness: the dashboard's recompute-all failed at a risk after it had
\* saved the assessment of the risk before it, which is in the store
C23_Witness ==
    /\ resp.op = "recompute_all_assessments" /\ resp.raised
    /\ Cardinality(risks) = 2 /\ Cardinality(assessments) = 1
    /\ \E r \in risks : \E a \in assessments : a.risk_id = r.id /\ Converts(r)
    /\ \E r \in risks : ~Converts(r)

\* C26: a request that creates, updates or deletes a signal changes that
\* signal only: no risk and no assessment changes (the assessments of the
\* signal's risk stay as they were), a creation adds one signal and leaves
\* the others, an update leaves every other signal and the signal's id and
\* risk, and a deletion removes the one signal.
C26_SignalChangesOnlySignal ==
    [][(/\ steps' = steps + 1
        /\ resp'.op \in {"create_signal", "create_signal_from_form",
                         "update_signal", "delete_signal"}) =>
          /\ risks' = risks /\ assessments' = assessments
          /\ resp'.op \in {"create_signal", "create_signal_from_form"} =>
                /\ signals \subseteq signals'
                /\ Cardinality(signals' \ signals)
                     = (IF resp'.status \in {200, 201} THEN 1 ELSE 0)
          /\ resp'.op = "update_signal" =>
                /\ \A x \in signals : x.id # resp'.id => x \in signals'
                /\ \A y \in signals' :
                      \E x \in signals : x.id = y.id /\ x.risk_id = y.risk_id
                /\ Cardinality(signals') = Cardinality(signals)
          /\ resp'.op = "delete_signal" =>
                signals' = {x \in signals : x.id # resp'.id}]_vars

\* C26 witness: the direction of a signal was updated after its risk was
\* assessed; the assessment is still the one computed with the old direction
C26_Witness ==
    /\ resp.op = "update_signal" /\ resp.status = 200
    /\ "direction" \in resp.fields
    /\ \E x \in get_signal(resp.id) : \E r \in get_risk(x.risk_id) :
          \E a \in assessments :
             /\ a.risk_id = r.id /\ a.signal_count = 1
             /\ a.effective_likelihood #
                  calculate_effective_likelihood(r.base_likelihood,
                                                 get_signals_for_risk(r.id))

\* the store after a request that saved the assessment of outcome out, or
\* saved nothing when out is an error
StoreAfter(out, created) ==
    IF out.status = created THEN create_assessment(assessments, out.value)
    ELSE assessments

\* C29: from any state, for a risk in the store, the assess request and the
\* recompute request do the same to the store: each step of one saves what
\* the other would have saved from the same state at the same clock reading
\* (the same risk_id, effective_likelihood, impact, confidence, risk_score
\* and signal_count, or nothing when the other saves nothing), and changes
\* no risk and no signal.
C29_AssessEqualsRecompute ==
    [][(/\ steps' = steps + 1
        /\ resp'.op \in {"assess_risk", "recompute_risk"}
        /\ get_risk(resp'.id) # {}) =>
          /\ risks' = risks /\ signals' = signals
          /\ resp'.op = "assess_risk" =>
                \E out \in {RecomputeOutcome(resp'.id, clock')} :
                   /\ (resp'.status = 200) <=> (out.status = 201)
                   /\ assessments' = StoreAfter(out, 201)
          /\ resp'.op = "recompute_risk" =>
                \E out \in {AssessOutcome(resp'.id, clock')} :
                   /\ (resp'.status = 201) <=> (out.status = 200)
                   /\ assessments' = StoreAfter(out, 200)
      ]_vars

\* C29 witness: an assess request saved an assessment that counts a signal
C29_Witness ==
    /\ resp.op = "assess_risk" /\ resp.status = 200
    /\ \E a \in assessments :
          /\ a.risk_id = resp.id /\ a.signal_count > 0
          /\ a.assessed_at = clock
          /\ \A b \in assessments : b.id <= a.id

(***************************************************************************)
(* Properties of the domain functions (EngineSpec), continued              *)
(***************************************************************************)
\* C2: calculate_effective_likelihood returns the full sum clamped once to
\* [0, 1]: it is the float sum in list order clamped at the end, it is
\* exactly 1.0 (0.0) when the decimal total is above 1 (below 0), and
\* otherwise it is the decimal total base + sum of modifiers (to 2^-30),
\* however far the running sum strayed outside [0, 1] on the way.
C2_ClampOnce ==
    (req.op = "calculate_effective_likelihood" /\ Returned) =>
      LET total == req.base_likelihood + DecimalSum(req.signals)
          sum == FullSum(Hundredths(req.base_likelihood), SignalsOf(req.signals))
      IN  /\ res.value = (IF FLt(F1, sum) THEN F1
                          ELSE IF FLt(sum, F0) THEN F0 ELSE sum)
          /\ total > 100 => res.value = F1
          /\ total < 0 => res.value = F0
          /\ total \in 0..100 => FClose(res.value, Hundredths(total))

\* C2 witness: 0.9 + 0.2 - 0.2: the running sum leaves [0, 1] and comes
\* back, and the result is the unclamped total 0.9, not 0.8
C2_Witness ==
    /\ req.op = "calculate_effective_likelihood" /\ Returned
    /\ req.base_likelihood = 90
    /\ req.signals = <<[direction |-> "INCREASE", strength |-> "STRONG"],
                       [direction |-> "DECREASE", strength |-> "STRONG"]>>
    /\ FClose(res.value, Hundredths(90))

\* C3: get_likelihood_modifier is 0.05 / 0.10 / 0.20 for weak / medium /
\* strong, negated for a decrease signal.
C3_ModifierTable ==
    (req.op = "get_likelihood_modifier" /\ Returned) =>
      LET magnitude == CASE req.signal.strength = "WEAK" -> FDec(1, 20)
                         [] req.signal.strength = "MEDIUM" -> FDec(1, 10)
                         [] req.signal.strength = "STRONG" -> FDec(1, 5)
      IN  res.value = (IF req.signal.direction = "INCREASE" THEN magnitude
                       ELSE FNeg(magnitude))

C3_Witness ==
    /\ req.op = "get_likelihood_modifier" /\ Returned
    /\ req.signal = [direction |-> "DECREASE", strength |-> "STRONG"]
    /\ res.value = FNeg(FDec(20, 100))

\* C4: for a valid risk with an id and any signals, assess_risk produces an
\* assessment with 0.0 <= risk_score <= 5.0 and 0.0 <= effective_likelihood
\* <= 1.0.
C4_ScoreRange ==
    (req.op = "assess_risk" /\ res # Pending /\ req.risk.id # None) =>
      /\ Returned
      /\ FLe(F0, res.value.risk_score) /\ FLe(res.value.risk_score, FFromInt(5))
      /\ FLe(F0, res.value.effective_likelihood)
      /\ FLe(res.value.effective_likelihood, F1)

\* C4 witness: the extreme score 5.0 is reached with the likelihood clamped
C4_Witness ==
    /\ req.op = "assess_risk" /\ Returned
    /\ req.risk.base_likelihood = 90 /\ Len(req.signals) = 2
    /\ res.value.effective_likelihood = F1
    /\ res.value.risk_score = FFromInt(5)

\* C5: for a risk with an id, the assessment carries the risk's id, impact
\* and confidence, and signal_count is the length of the list passed.
C5_AssessFields ==
    (req.op = "assess_risk" /\ res # Pending /\ req.risk.id # None) =>
      /\ Returned
      /\ res.value.risk_id = req.risk.id
      /\ res.value.impact = req.risk.impact
      /\ res.value.confidence = Hundredths(req.risk.confidence)
      /\ res.value.signal_count
           = (IF req.signals_given THEN Len(req.signals) ELSE 0)

C5_Witness ==
    /\ req.op = "assess_risk" /\ Returned
    /\ req.signals_given /\ Len(req.signals) = 2
    /\ res.value.signal_count = 2 /\ res.value.risk_id = 7
    /\ res.value.impact = 3

\* C6: assess_risk on a risk without an id raises (ValueError) and returns
\* no Assessment, whatever the signals; assess_all_risks does not catch it.
C6_NoIdRaises ==
    /\ (req.op = "assess_risk" /\ res # Pending /\ req.risk.id = None) =>
         (Raised /\ res.error = "ValueError")
    /\ (req.op = "assess_all_risks" /\ res # Pending
        /\ \E i \in 1..Len(req.pairs) : req.pairs[i].risk.id = None) =>
         (Raised /\ res.error = "ValueError")

C6_Witness ==
    /\ req.op = "assess_risk" /\ Raised
    /\ req.risk.id = None /\ req.signals_given /\ Len(req.signals) = 2

\* an assessment without its timestamp
WithoutTime(a) ==
    [risk_id |-> a.risk_id, effective_likelihood |-> a.effective_likelihood,
     impact |-> a.impact, confidence |-> a.confidence,
     risk_score |-> a.risk_score, signal_count |-> a.signal_count]

\* C7: assess_all_risks returns, in input order, what assess_risk returns
\* for each pair alone (assessed_at apart); when assess_risk raises for
\* some pair, so does assess_all_risks.
C7_BatchIndependence ==
    (req.op = "assess_all_risks" /\ res # Pending) =>
      LET alone == [i \in 1..Len(req.pairs) |->
                      assess_risk(Risk(RiskFieldsOf(req.pairs[i].risk)).value,
                                  [given |-> TRUE,
                                   value |-> SignalsOf(req.pairs[i].signals)],
                                  req.now)]
      IN  IF \A i \in 1..Len(req.pairs) : alone[i].ok
          THEN /\ Returned
               /\ Len(res.value) = Len(req.pairs)
               /\ \A i \in 1..Len(req.pairs) :
                     WithoutTime(res.value[i]) = WithoutTime(alone[i].value)
          ELSE Raised

\* C7 witness: a batch of two different pairs, assessed at different times
C7_Witness ==
    /\ req.op = "assess_all_risks" /\ Returned
    /\ Len(res.value) = 2
    /\ res.value[1].risk_id # res.value[2].risk_id
    /\ res.value[1].signal_count = 2 /\ res.value[2].signal_count = 1
    /\ res.value[1].assessed_at # res.value[2].assessed_at

\* the lists that are permutations of a list
PermutationsOf(l) ==
    {[i \in 1..Len(l) |-> l[p[i]]] : p \in Permutations(1..Len(l))}

\* C8 as stated: every permutation of the signals gives the same float
C8_OrderIndependentExact ==
    (req.op = "calculate_effective_likelihood" /\ Returned) =>
      \A l \in PermutationsOf(req.signals) :
         calculate_effective_likelihood(Hundredths(req.base_likelihood),
                                        SignalsOf(l)) = res.value

\* C8 amended: every permutation of the signals gives a value within
\* 2^-30 (< 1e-9) of the result.
C8_OrderIndependentClose ==
    (req.op = "calculate_effective_likelihood" /\ Returned) =>
      \A l \in PermutationsOf(req.signals) :
         FClose(calculate_effective_likelihood(Hundredths(req.base_likelihood),
                                               SignalsOf(l)),
                res.value)

\* C8 witness: two orders of one list whose results differ in the last bits
C8_Witness ==
    /\ req.op = "calculate_effective_likelihood" /\ Returned
    /\ Len(req.signals) >= 2
    /\ \E l \in PermutationsOf(req.signals) :
          LET other == calculate_effective_likelihood(
                           Hundredths(req.base_likelihood), SignalsOf(l))
          IN  other # res.value /\ FClose(other, res.value)

\* C9: with an empty signal list, or with signals omitted, assess_risk gives
\* effective_likelihood = risk.base_likelihood and signal_count = 0.
C9_AssessEmpty ==
    (req.op = "assess_risk" /\ res # Pending /\ req.risk.id # None
     /\ (~req.signals_given \/ req.signals = <<>>)) =>
      /\ Returned
      /\ res.value.effective_likelihood = Hundredths(req.risk.base_likelihood)
      /\ res.value.signal_count = 0

C9_Witness ==
    /\ req.op = "assess_risk" /\ Returned
    /\ ~req.signals_given
    /\ req.risk.base_likelihood = 50
    /\ res.value.effective_likelihood = FDec(1, 2)
    /\ res.value.signal_count = 0

\* C10: Risk(...) raises a validation error when base_likelihood or
\* confidence is outside [0, 1], impact is outside 1..5, or the name is
\* empty or longer than 200; it succeeds at the bounds (0.0, 1.0, 1, 5,
\* 1 and 200 characters) when the enum fields are members.
C10_RiskValidation ==
    (req.op = "Risk" /\ res # Pending) =>
      LET f == req.fields
          outside == \/ f.base_likelihood < 0 \/ f.base_likelihood > 100
                     \/ f.confidence < 0 \/ f.confidence > 100
                     \/ f.impact < 1 \/ f.impact > 5
                     \/ Len(f.name) = 0 \/ Len(f.name) > 200
          enums == f.category \in RiskCategory /\ f.time_horizon \in TimeHorizon
      IN  /\ outside => (Raised /\ res.error = "ValidationError")
          /\ (~outside /\ enums) => Returned

\* C10 witness: every bound at once is accepted
C10_Witness ==
    /\ req.op = "Risk" /\ Returned
    /\ req.fields.base_likelihood = 100 /\ req.fields.confidence = 0
    /\ req.fields.impact = 5 /\ Len(req.fields.name) = 200
    /\ res.value.base_likelihood = F1

\* C10 witness: impact 6 alone is rejected
C10_WitnessRejected ==
    /\ req.op = "Risk" /\ Raised
    /\ req.fields.impact = 6 /\ res.error = "ValidationError"


\* C17: get_risk_severity gives High for a score of 3.0 or more, Medium for
\* a score of 1.5 or more and below 3.0, and Low for a score below 1.5; the
\* scores 1.5 and 3.0 themselves are Medium and High, and every score gets
\* one band.
C17_SeverityBands ==
    (req.op = "get_risk_severity" /\ Returned) =>
      /\ res.value \in {"High", "Medium", "Low"}
      /\ res.value = "High" <=> req.ten_thousandths >= 30000
      /\ res.value = "Medium" <=>
           (15000 <= req.ten_thousandths /\ req.ten_thousandths < 30000)
      /\ res.value = "Low" <=> req.ten_thousandths < 15000

\* C17 witness: the score of a risk with base_likelihood 0.5, impact 3 and
\* confidence 1.0 and no signals, 1.5, is classified Medium
C17_Witness ==
    /\ req.op = "get_risk_severity" /\ Returned
    /\ FDec(req.ten_thousandths, 10000) =
         calculate_risk_score(Hundredths(50), 3, Hundredths(100))
    /\ req.ten_thousandths = 15000 /\ res.value = "Medium"

\* C17 witness: the score 3.0 is classified High
C17_WitnessHigh ==
    /\ req.op = "get_risk_severity" /\ Returned
    /\ req.ten_thousandths = 30000 /\ res.value = "High"


(***************************************************************************)
(* Properties of the data-input layer (ImportSpec)                         *)
(***************************************************************************)
\* the first cell among the synonyms' columns that is not null (neither
\* absent nor empty)
RECURSIVE Resolved(_, _)
Resolved(row, synonyms) ==
    IF synonyms = <<>> THEN NoneCell
    ELSE IF RowGet(row, Head(synonyms)) \notin {NoneCell, NanCell}
    THEN RowGet(row, Head(synonyms))
    ELSE Resolved(row, Tail(synonyms))

\* the letters of chars in upper case
UpperCased(chars) ==
    [i \in 1..Len(chars) |->
       IF \E k \in 1..26 : LowerLetters[k] = chars[i]
       THEN UpperLetters[CHOOSE k \in 1..26 : LowerLetters[k] = chars[i]]
       ELSE chars[i]]

\* the text of the cell, trimmed, is a member of the closed set whatever the
\* case of its letters
MatchesEnum(cell, members) ==
    /\ cell.kind = "str"
    /\ PyString(UpperCased(PyStrip(cell.chars))) \in members

\* the cell is a number of [0, 1]
InUnitInterval(cell) ==
    \/ cell.kind = "float" /\ 0 <= cell.hundredths /\ cell.hundredths <= 100
    \/ cell.kind = "int" /\ cell.value \in {0, 1}

\* the criteria of the specification for a risk row and for a signal row
WellFormedRiskRow(row) ==
    /\ Resolved(row, <<"name", "risk_name", "title", "risk">>) # NoneCell
    /\ MatchesEnum(Resolved(row, <<"category", "risk_category", "type">>),
                   RiskCategory)
    /\ InUnitInterval(Resolved(row, <<"base_likelihood", "likelihood",
                                      "probability">>))
    /\ LET impact == Resolved(row, <<"impact", "severity">>)
       IN  impact.kind = "int" /\ 1 <= impact.value /\ impact.value <= 5
    /\ InUnitInterval(Resolved(row, <<"confidence", "certainty">>))
    /\ MatchesEnum(Resolved(row, <<"time_horizon", "horizon", "timeframe">>),
                   TimeHorizon)

WellFormedSignalRow(row) ==
    /\ Resolved(row, <<"name", "signal_name", "title", "signal">>) # NoneCell
    /\ Resolved(row, <<"risk_id", "riskid", "risk">>).kind = "int"
    /\ MatchesEnum(Resolved(row, <<"direction", "effect", "impact_direction">>),
                   SignalDirection)
    /\ MatchesEnum(Resolved(row, <<"strength", "intensity", "magnitude">>),
                   SignalStrength)

\* C18 as stated: a row is accepted if and only if every required field
\* resolves through its synonyms to a non-null value, the numeric fields are
\* valid, and every enum field matches a member of its closed set after
\* trimming, whatever the case of its letters.
C18_AcceptedIffWellFormed ==
    /\ (req.op = "validate_and_clean_risk_data" /\ res # Pending) =>
          (res.ok <=> WellFormedRiskRow(req.row))
    /\ (req.op = "validate_and_clean_signal_data" /\ res # Pending) =>
          (res.ok <=> WellFormedSignalRow(req.row))

\* the four upload requests
UploadOps ==
    {"upload_risks_csv", "upload_risks_excel", "upload_signals_csv",
     "upload_signals_excel"}

\* the 1-based indexes of the rows of the file that were rejected
RejectedRows ==
    {i \in 1..Len(req.file.rows) :
       IF req.op \in {"upload_risks_csv", "upload_risks_excel"}
       THEN ~validate_and_clean_risk_data(req.file.rows[i]).ok
       ELSE ~validate_and_clean_signal_data(req.file.rows[i]).ok}

\* the records the upload added to its table (the store was empty before)
CreatedRecords ==
    IF req.op \in {"upload_risks_csv", "upload_risks_excel"} THEN risks
    ELSE signals

\* C19: an upload of a file that is read is answered with a report in which
\* records_processed is the number of rows of the file, every row either
\* created one record or added one error naming its 1-based index, in row
\* order, and records_created plus the number of errors is
\* records_processed; a rejected row does not end the batch.
C19_UploadCounts ==
    (resp.op \in UploadOps /\ resp.status # 400) =>
      /\ resp.status = 200
      /\ resp.body.records_processed = Len(req.file.rows)
      /\ resp.body.records_created = Cardinality(CreatedRecords)
      /\ resp.body.records_created + Len(resp.all_errors) =
           resp.body.records_processed
      /\ {resp.all_errors[k].row : k \in DOMAIN resp.all_errors} = RejectedRows
      /\ \A k \in DOMAIN resp.all_errors :
            \A l \in DOMAIN resp.all_errors :
               k < l => resp.all_errors[k].row < resp.all_errors[l].row

\* C19 witness: the second of four rows has no impact; it is reported as
\* row 2, and the rows after it are processed and reported too
C19_Witness ==
    /\ resp.op = "upload_risks_csv" /\ resp.status = 200
    /\ Len(req.file.rows) = 4
    /\ req.file.rows[2].impact = NanCell
    /\ req.file.rows[4].impact # NanCell
    /\ resp.body.records_processed = 4
    /\ \E k \in DOMAIN resp.all_errors : resp.all_errors[k].row = 2
    /\ \E k \in DOMAIN resp.all_errors : resp.all_errors[k].row = 4

\* C20: the errors list of the report is the first min(10, n) of the n row
\* errors, in row order; the rows rejected after the tenth are counted in
\* records_processed and not in records_created, and are not listed.
C20_FirstTenErrors ==
    (resp.op \in UploadOps /\ resp.status = 200) =>
      LET n == Len(resp.all_errors)
          listed == IF n < 10 THEN n ELSE 10
      IN  /\ Len(resp.body.errors) = listed
          /\ \A k \in 1..listed : resp.body.errors[k] = resp.all_errors[k]
          /\ n = Cardinality(RejectedRows)
          /\ resp.body.records_processed - resp.body.records_created = n

\* C20 witness: eleven rows are rejected, ten of them are listed, the
\* eleventh is counted only
C20_Witness ==
    /\ resp.op \in UploadOps /\ resp.status = 200
    /\ Cardinality(RejectedRows) = 11
    /\ Len(resp.body.errors) = 10
    /\ resp.body.errors[10].row = 10
    /\ resp.body.records_processed = 11 /\ resp.body.records_created = 0

(***************************************************************************)
(* Scoring a risk without and with one more signal (MonotoneSpec): the     *)
(* request is a valid risk, a list of signals, one more signal and the     *)
(* place in the list it is added at; the two scorings are the calls of     *)
(* calculate_effective_likelihood and calculate_risk_score assess_risk     *)
(* makes (src/domain/scoring.py).                                          *)
(***************************************************************************)
MaxScoredSignals == 2

\* the list l with x added after its first p elements
InsertAt(l, p, x) == SubSeq(l, 1, p) \o <<x>> \o SubSeq(l, p + 1, Len(l))

ScoredRisks ==
    [base_likelihood : {0, 50, 95}, impact : {1, 5}, confidence : {80}]

MonotoneRequests ==
    {[op |-> "score_with_added_signal", risk |-> r, signals |-> l,
      added |-> k, at |-> p] :
        r \in ScoredRisks, l \in SeqsUpTo(SignalKinds, MaxScoredSignals),
        k \in SignalKinds, p \in 0..MaxScoredSignals}

\* effective_likelihood and risk_score as assess_risk computes them
Scores(risk, kinds) ==
    LET effective_likelihood ==
            calculate_effective_likelihood(Hundredths(risk.base_likelihood),
                                           SignalsOf(kinds))
    IN  [effective_likelihood |-> effective_likelihood,
         risk_score |-> calculate_risk_score(effective_likelihood, risk.impact,
                                             Hundredths(risk.confidence))]

MonotoneInit ==
    /\ req \in {r \in MonotoneRequests : r.at <= Len(r.signals)}
    /\ res = Pending
    /\ risks = {} /\ signals = {} /\ assessments = {}
    /\ clock = 0 /\ steps = 0 /\ resp = [op |-> "none"]

ScoreWithout ==
    /\ res = Pending
    /\ res' = [status |-> "scored", before |-> Scores(req.risk, req.signals)]
    /\ UNCHANGED <<req, apiVars>>

ScoreWith ==
    /\ res.status = "scored"
    /\ res' = [status |-> "returned", before |-> res.before,
               after |-> Scores(req.risk,
                                InsertAt(req.signals, req.at, req.added))]
    /\ UNCHANGED <<req, apiVars>>

MonotoneNext ==
    \/ ScoreWithout
    \/ ScoreWith

MonotoneSpec == MonotoneInit /\ [][MonotoneNext]_vars

\* C30: for a valid risk and any signal list, one more increase signal, added
\* anywhere in the list, never lowers effective_likelihood or risk_score, and
\* one more decrease signal never raises them.
C30_MonotoneInSignals ==
    res.status = "returned" =>
      /\ req.added.direction = "INCREASE" =>
            /\ FLe(res.before.effective_likelihood,
                   res.after.effective_likelihood)
            /\ FLe(res.before.risk_score, res.after.risk_score)
      /\ req.added.direction = "DECREASE" =>
            /\ FLe(res.after.effective_likelihood,
                   res.before.effective_likelihood)
            /\ FLe(res.after.risk_score, res.before.risk_score)

\* C30 witness: a decrease signal added in the middle of a list lowered both
\* the effective likelihood and the score
C30_Witness ==
    /\ res.status = "returned"
    /\ req.added.direction = "DECREASE"
    /\ Len(req.signals) = 2 /\ req.at = 1
    /\ FLt(res.after.effective_likelihood, res.before.effective_likelihood)
    /\ FLt(res.after.risk_score, res.before.risk_score)

\* C30 witness: an increase signal added to a likelihood already clamped at
\* 1.0 left both values as they were
C30_WitnessClamped ==
    /\ res.status = "returned"
    /\ req.added.direction = "INCREASE"
    /\ res.before.effective_likelihood = F1
    /\ res.after = res.before

(***************************************************************************)
(* Concurrent requests (RaceSpec).  The endpoints are plain functions, so  *)
(* the server runs each request on a thread of its pool, with a session of *)
(* its own and no lock.  recompute_risk_endpoint is taken statement by     *)
(* statement: get_risk, get_signals_for_risk, assess_risk (which stamps    *)
(* assessed_at), create_assessment (which commits).  req holds the local   *)
(* variables of the two recompute requests; the requests that change the   *)
(* risk or its signals commit once and are taken whole.  steps counts the  *)
(* changing requests handled.                                              *)
(***************************************************************************)
MaxMutations == 2

\* the two recompute requests, both for the one risk of the store, which
\* has the id the first risk created gets
RecomputeRequests == {1, 2}
RacedRisk == NextId({})

RaceInit ==
    /\ risks = {[id |-> RacedRisk, category |-> "TECHNICAL", name |-> "Risk",
                 base_likelihood |-> Hundredths(50), impact |-> 3,
                 confidence |-> Hundredths(80), time_horizon |-> "MONTHS"]}
    /\ signals = {[id |-> 1, risk_id |-> RacedRisk, name |-> "Signal",
                   direction |-> "INCREASE", strength |-> "STRONG"]}
    /\ assessments = {}
    /\ clock = 0 /\ steps = 0 /\ resp = [op |-> "none"]
    /\ req = [p \in RecomputeRequests |-> [pc |-> "idle"]]
    /\ res = Pending

\* result = get_risk_with_signals(...), first query: get_risk; without the
\* risk the request is answered 404
RecomputeReadRisk(p) ==
    /\ req[p].pc = "idle"
    /\ req' = [req EXCEPT ![p] =
                 IF get_risk(RacedRisk) = {}
                 THEN [pc |-> "done", began |-> steps, status |-> 404]
                 ELSE [pc |-> "risk_read", began |-> steps,
                       risk |-> CHOOSE r \in get_risk(RacedRisk) : TRUE]]
    /\ UNCHANGED <<res, apiVars>>

\* get_risk_with_signals, second query: get_signals_for_risk
RecomputeReadSignals(p) ==
    /\ req[p].pc = "risk_read"
    /\ req' = [req EXCEPT ![p] =
                 [pc |-> "signals_read", began |-> req[p].began,
                  risk |-> req[p].risk,
                  signals |-> get_signals_for_risk(RacedRisk)]]
    /\ UNCHANGED <<res, apiVars>>

\* mutant: the signals read are not passed to the engine
RecomputeAssess_NoSignals(p) ==
    /\ req[p].pc = "signals_read"
    /\ \E now \in {clock, clock + 1} :
          \E out \in {Answer(AssessConverted(Risk(req[p].risk),
                                             SignalsFromDb(<<>>), now),
                             201)} :
             /\ req' = [req EXCEPT ![p] =
                          IF out.status = 201
                          THEN [pc |-> "assessed", began |-> req[p].began,
                                risk |-> req[p].risk,
                                signals |-> req[p].signals,
                                assessment |-> out.value]
                          ELSE [pc |-> "done", began |-> req[p].began,
                                risk |-> req[p].risk,
                                signals |-> req[p].signals,
                                status |-> out.status]]
             /\ clock' = now
    /\ UNCHANGED <<res, risks, signals, assessments, steps, resp>>

\* Risk(...), Signal.from_db_model for each signal, assess_risk: the
\* Assessment is built with assessed_at read from the clock; a conversion
\* that raises is answered 500
RecomputeAssess(p) ==
    /\ req[p].pc = "signals_read"
    /\ \E now \in {clock, clock + 1} :
          \E out \in {Answer(AssessConverted(Risk(req[p].risk),
                                             SignalsFromDb(req[p].signals),
                                             now),
                             201)} :
             /\ req' = [req EXCEPT ![p] =
                          IF out.status = 201
                          THEN [pc |-> "assessed", began |-> req[p].began,
                                risk |-> req[p].risk,
                                signals |-> req[p].signals,
                                assessment |-> out.value]
                          ELSE [pc |-> "done", began |-> req[p].began,
                                risk |-> req[p].risk,
                                signals |-> req[p].signals,
                                status |-> out.status]]
             /\ clock' = now
    /\ UNCHANGED <<res, risks, signals, assessments, steps, resp>>

\* create_assessment(db, assessment_data) and the 201 response; SQLite does
\* not check the foreign key of risk_id
RecomputeSave(p) ==
    /\ req[p].pc = "assessed"
    /\ assessments' = create_assessment(assessments, req[p].assessment)
    /\ req' = [req EXCEPT ![p] =
                 [pc |-> "done", began |-> req[p].began, risk |-> req[p].risk,
                  signals |-> req[p].signals,
                  assessment |-> req[p].assessment, status |-> 201]]
    /\ UNCHANGED <<res, risks, signals, clock, steps, resp>>

RaceReadRisk == \E p \in RecomputeRequests : RecomputeReadRisk(p)
RaceReadSignals == \E p \in RecomputeRequests : RecomputeReadSignals(p)
RaceAssess == \E p \in RecomputeRequests : RecomputeAssess(p)
RaceSave == \E p \in RecomputeRequests : RecomputeSave(p)

\* the requests that change the risk or its signals while the recompute
\* requests run
RaceUpdateRisk ==
    /\ steps < MaxMutations
    /\ \E risk \in {[impact |-> 5], [base_likelihood |-> Hundredths(150)]} :
          update_risk_endpoint(RacedRisk, risk)

RaceDeleteRisk == steps < MaxMutations /\ delete_risk_endpoint(RacedRisk)

RaceCreateSignal ==
    /\ steps < MaxMutations
    /\ create_signal_endpoint(
           [risk_id |-> RacedRisk, name |-> "Signal",
            direction |-> "DECREASE", strength |-> "WEAK"])

RaceNext ==
    \/ RaceReadRisk
    \/ RaceReadSignals
    \/ RaceAssess
    \/ RaceSave
    \/ RaceUpdateRisk
    \/ RaceDeleteRisk
    \/ RaceCreateSignal

RaceSpec == RaceInit /\ [][RaceNext]_vars

(***************************************************************************)
(* Properties of the concurrent requests (RaceSpec)                        *)
(***************************************************************************)
\* the assessment a is the engine's result on the risk and the signals the
\* recompute request p read
SnapshotOfRead(p, a) ==
    /\ a.risk_id = req[p].risk.id
    /\ a.effective_likelihood =
          calculate_effective_likelihood(req[p].risk.base_likelihood,
                                         req[p].signals)
    /\ a.risk_score = calculate_risk_score(a.effective_likelihood,
                                           req[p].risk.impact,
                                           req[p].risk.confidence)
    /\ a.impact = req[p].risk.impact
    /\ a.confidence = req[p].risk.confidence
    /\ a.signal_count = Len(req[p].signals)

\* C24: each of two interleaved recompute requests that found the risk
\* completes with 201 and appends one assessment, which is the engine's
\* result on the risk and the signals the request itself read.
C24_BothCompleteWithSnapshots ==
    [][\A p \in RecomputeRequests :
         (/\ req[p].pc \in {"signals_read", "assessed"}
          /\ req'[p].pc = "done") =>
            /\ req'[p].status = 201
            /\ assessments \subseteq assessments'
            /\ Cardinality(NewAssessments) = 1
            /\ \A a \in NewAssessments : SnapshotOfRead(p, a)]_vars

\* C25: the risk_id of every stored assessment is the id of a stored risk.
C25_AssessmentHasRisk ==
    \A a \in assessments : get_risk(a.risk_id) # {}

\* no recompute request is between its first statement and its response
NoneInFlight == \A p \in RecomputeRequests : req[p].pc \in {"idle", "done"}

\* the recompute request p began after the last request that changed the
\* risk or its signals, and saved its assessment
FreshAndSaved(p) ==
    /\ req[p].pc = "done" /\ req[p].status = 201
    /\ req[p].began = steps

\* the recompute request q read the risk before the last change, and its
\* assessment was stamped no earlier than that of p
StampedAfter(q, p) ==
    /\ req[q].pc = "done" /\ req[q].status = 201
    /\ req[q].began < steps
    /\ req[q].assessment.assessed_at >= req[p].assessment.assessed_at

\* every assessment of the risk with the greatest assessed_at is the
\* engine's result on the stored risk and signals
LatestIsCurrent ==
    \A a \in LatestJoin : \A r \in get_risk(a.risk_id) : EngineResultFor(r, a)

\* C28 as stated: when a recompute began after the last change and saved
\* its assessment, and no request is in flight, the assessment with the
\* greatest assessed_at is the engine's result on the stored state.
C28_LatestIsCurrent ==
    (NoneInFlight /\ \E p \in RecomputeRequests : FreshAndSaved(p)) =>
       /\ LatestJoin # {}
       /\ LatestIsCurrent

\* C28 as amended: the same, provided no recompute that read the risk before
\* the last change stamped its assessment at or after the stamp of the
\* recompute that began after it.
C28_LatestIsCurrentUnlessStaleStampedLater ==
    (/\ NoneInFlight
     /\ \E p \in RecomputeRequests :
           /\ FreshAndSaved(p)
           /\ \A q \in RecomputeRequests : ~StampedAfter(q, p)) =>
       /\ LatestJoin # {}
       /\ LatestIsCurrent

\* C28 witness: a recompute that read before a change saved an assessment
\* with an earlier stamp and other values than the recompute that began
\* after the change, and the later one is the latest
C28_Witness ==
    /\ NoneInFlight
    /\ \E p, q \in RecomputeRequests :
          /\ FreshAndSaved(p)
          /\ req[q].pc = "done" /\ req[q].status = 201
          /\ req[q].began < steps
          /\ req[q].assessment.assessed_at < req[p].assessment.assessed_at
          /\ req[q].assessment.risk_score # req[p].assessment.risk_score
          /\ Cardinality(assessments) = 2
=============================================================================
